---- MODULE Spec2Model ----
(***************************************************************************)
(* The unit converter data loader,                                         *)
(* src/src/CalcViewModel/DataLoaders/UnitConverterDataLoader.cpp.          *)
(*                                                                         *)
(* The loader is constructed for one region code.  LoadData builds the     *)
(* category list, the category -> units map and the unit -> unit -> ratio  *)
(* map from the static catalogue (GetUnits), the linear factor table       *)
(* (GetConversionData) and the explicit table (GetExplicitConversionData). *)
(* A LoadData call is taken one loop iteration at a time, so its locals    *)
(* are variables here; they are empty while no call runs.                  *)
(*                                                                         *)
(* Three specifications share the actions of LoadData.  Spec is LoadData   *)
(* alone, under every outcome of std::sort.  SpecQueries adds the four     *)
(* queries, which another thread may make at any point of a LoadData call; *)
(* SpecProvider adds a localized-string provider that comes to fail.  The  *)
(* last two take the one sort routine that keeps declaration order.        *)
(*                                                                         *)
(* Behaviour the language leaves open is a choice: std::sort may leave     *)
(* units of equal order in any order (one outcome per loader, stdSort),    *)
(* and a division with a null or zero operand either ends the process or   *)
(* leaves one of the values of Indeterminate.                              *)
(*                                                                         *)
(* Numbers.  A PRAT is an exact rational.  The factor literals do not fit  *)
(* a machine integer (1024^7, 10^20), so a rational is kept as its sign    *)
(* and the exponents of its prime factorisation: multiplication and        *)
(* division add and subtract exponents and equality is exact.  Primes are  *)
(* keyed by their decimal spelling because two of them exceed 2^31.        *)
(* A macro argument is read as the integer it spells.                      *)
(***************************************************************************)
EXTENDS Integers, Sequences, FiniteSets, TLC

VARIABLES
    m_currentRegionCode,  \* region code the loader was constructed with
    m_categoryList,       \* sequence of categories
    m_categoryToUnits,    \* category id -> sequence of units
    m_ratioMap,           \* unit id -> (unit id -> ConversionData)
    pc,                   \* "idle", "loading" (inside LoadData), "aborted", "faulted"
    categoryIndex,        \* position of LoadData's loop over m_categoryList
    idToUnit,             \* LoadData's local: unit id -> unit
    orderedUnitMap,       \* LoadData's local: category -> sequence of OrderedUnit
    categoryToUnitConversionDataMap,  \* LoadData's local: category -> unit id -> factor
    explicitConversionData,           \* LoadData's local: unit id -> unit id -> ConversionData
    lastLoad,             \* how the last LoadData call ended
    loads,                \* number of LoadData calls started
    stdSort,              \* what std::sort returns for each category's units
    unresolved,           \* string ids the localized-string provider cannot resolve
    reply,                \* what the query being answered gives; NoReply between queries
    built                 \* the tables as the last returned LoadData call left them

vars == << m_currentRegionCode, m_categoryList, m_categoryToUnits, m_ratioMap,
           pc, categoryIndex, idToUnit, orderedUnitMap,
           categoryToUnitConversionDataMap, explicitConversionData,
           lastLoad, loads, stdSort, unresolved, reply, built >>

\* Number of LoadData calls explored on one loader.
MaxLoads == 2

\* Region codes explored: every code GetUnits compares against, and two
\* codes ("FR", "DE") it compares against nowhere.
Regions == {"US", "FM", "MH", "PW", "LR", "BS", "KY", "GB", "KP", "KR", "FR", "DE"}

----------------------------------------------------------------------------
(* Exact rationals (PRAT) *)

SmallPrimes == {2, 3, 5, 7, 11, 17, 19, 23, 31, 41, 43, 47, 53, 59, 83, 97, 127, 149, 167, 173, 193, 233, 463, 487, 523, 607, 1069, 1163, 5077, 5309, 6073, 7457, 20129, 21059, 28019, 36739, 315451, 454609, 4463929}

PrimeOf(key) == CHOOSE p \in SmallPrimes : ToString(p) = key

NoExponents == [key \in {} |-> 0]

\* PRAT x = nullptr
nullptr == [nil |-> TRUE, sgn |-> 0, f |-> NoExponents]

Rational(sgn, f) == [nil |-> FALSE, sgn |-> sgn, f |-> f]

rat_zero == Rational(0, NoExponents)

rat_one == Rational(1, NoExponents)

Abs(n) == IF n < 0 THEN -n ELSE n

RECURSIVE Multiplicity(_, _)
Multiplicity(n, p) == IF n % p = 0 THEN 1 + Multiplicity(n \div p, p) ELSE 0

RECURSIVE Strip(_, _)
Strip(n, p) == IF n % p = 0 THEN Strip(n \div p, p) ELSE n

RECURSIVE Cofactor(_, _)
Cofactor(n, P) ==
    IF P = {} THEN n
    ELSE LET p == CHOOSE q \in P : TRUE
         IN  Cofactor(Strip(n, p), P \ {p})

\* The rational with the value of the integer n.  A factor of n that is not
\* in SmallPrimes is kept whole, under its own spelling.
INT(n) ==
    IF n = 0 THEN rat_zero
    ELSE LET a == Abs(n)
             divisors == {p \in SmallPrimes : a % p = 0}
             rest == Cofactor(a, divisors)
             known == [key \in {ToString(p) : p \in divisors} |-> Multiplicity(a, PrimeOf(key))]
         IN  Rational(IF n < 0 THEN -1 ELSE 1,
                      IF rest = 1 THEN known ELSE known @@ (ToString(rest) :> 1))

\* A prime too large to be written as an integer.
PRIME(spelling) == Rational(1, (spelling :> 1))

Exponent(r, key) == IF key \in DOMAIN r.f THEN r.f[key] ELSE 0

Combine(a, b, s) ==
    LET keys == DOMAIN a.f \cup DOMAIN b.f
    IN  [key \in {k \in keys : Exponent(a, k) + s * Exponent(b, k) # 0}
            |-> Exponent(a, key) + s * Exponent(b, key)]

Times(a, b) ==
    IF a.nil \/ b.nil THEN nullptr
    ELSE IF a.sgn = 0 \/ b.sgn = 0 THEN rat_zero
    ELSE Rational(a.sgn * b.sgn, Combine(a, b, 1))

\* a / b for rationals that are defined, b nonzero.
RatDiv(a, b) ==
    IF a.nil \/ b.nil \/ b.sgn = 0 THEN nullptr
    ELSE IF a.sgn = 0 THEN rat_zero
    ELSE Rational(a.sgn * b.sgn, Combine(a, b, -1))

\* INIT_AND_DUMP_RAW_RAT_FRAQ_IF_NULL(rat, num, div): rat = num / div.
Frac(num, div) == RatDiv(num, div)

----------------------------------------------------------------------------
(* The shared constants, GetConversionData and GetExplicitConversionData *)

\* ratpak supplies rat_one and rat_zero; the others are set by the
\* INIT_AND_DUMP_RAW_RAT... lines of GetConversionData and
\* GetExplicitConversionData.  Lines 928 and 939 set rat_0_000125 and
\* rat_0_9, which no table uses; they are left out.
\* INIT_AND_DUMP_RAW_RAT_IF_NULL(rat_60, 60);
rat_60 == INT(60)
\* INIT_AND_DUMP_RAW_RAT_IF_NULL(rat_100, 100);
rat_100 == INT(100)
\* INIT_AND_DUMP_RAW_RAT_IF_NULL(rat_1000, 1000);
rat_1000 == INT(1000)
\* INIT_AND_DUMP_RAW_RAT_IF_NULL(rat_10000, 10000);
rat_10000 == INT(10000)
\* INIT_AND_DUMP_RAW_RAT_IF_NULL(rat_100000, 100000);
rat_100000 == INT(100000)
\* INIT_AND_DUMP_RAW_RAT_IF_NULL(rat_1000000, 1000000);
rat_1000000 == INT(1000000)
\* INIT_AND_DUMP_RAW_RAT_FRAQ_IF_NULL(rat_pressure_bar, 100000, 101325);
rat_pressure_bar == Frac(INT(100000), INT(101325))
\* INIT_AND_DUMP_RAW_RAT_FRAQ_IF_NULL(rat_pressure_pascal, 1, 101325);
rat_pressure_pascal == Frac(INT(1), INT(101325))
\* INIT_AND_DUMP_RAW_RAT_FRAQ_IF_NULL(rat_pressure_kilopascal, 1000, 101325);
rat_pressure_kilopascal == Frac(INT(1000), INT(101325))
\* INIT_AND_DUMP_RAW_RAT_FRAQ_IF_NULL(rat_power_horsepower, 74569987158227022, 100000000000000);
\*   where 74569987158227022 = 170159387 * 438236106
\*   where 100000000000000 = 100000 * 1000000000
rat_power_horsepower == Frac(Times(INT(170159387), INT(438236106)), Times(INT(100000), INT(1000000000)))
\* INIT_AND_DUMP_RAW_RAT_FRAQ_IF_NULL(rat_power_horse, 7457, 10);
rat_power_horse == Frac(INT(7457), INT(10))
\* INIT_AND_DUMP_RAW_RAT_FRAQ_IF_NULL(rat_pressure_millimeterofmercury, 1, 760);
rat_pressure_millimeterofmercury == Frac(INT(1), INT(760))
\* INIT_AND_DUMP_RAW_RAT_FRAQ_IF_NULL(rat_pressure_psi, 10000, 146956);
rat_pressure_psi == Frac(INT(10000), INT(146956))
\* INIT_AND_DUMP_RAW_RAT_FRAQ_IF_NULL(rat_length_inch, 254, 10000);
rat_length_inch == Frac(INT(254), INT(10000))
\* INIT_AND_DUMP_RAW_RAT_FRAQ_IF_NULL(rat_foot, 3048, 10000);
rat_foot == Frac(INT(3048), INT(10000))
\* INIT_AND_DUMP_RAW_RAT_FRAQ_IF_NULL(rat_length_yard, 9144, 10000);
rat_length_yard == Frac(INT(9144), INT(10000))
\* INIT_AND_DUMP_RAW_RAT_FRAQ_IF_NULL(rat_length_mile, 1609344, 1000);
rat_length_mile == Frac(INT(1609344), INT(1000))
\* INIT_AND_DUMP_RAW_RAT_FRAQ_IF_NULL(rat_length_nauticalmile, 1852, 1);
rat_length_nauticalmile == Frac(INT(1852), INT(1))
\* INIT_AND_DUMP_RAW_RAT_FRAQ_IF_NULL(rat_length_paperclip, 35052, 1000000);
rat_length_paperclip == Frac(INT(35052), INT(1000000))
\* INIT_AND_DUMP_RAW_RAT_FRAQ_IF_NULL(rat_length_hand, 18669, 100000);
rat_length_hand == Frac(INT(18669), INT(100000))
\* INIT_AND_DUMP_RAW_RAT_FRAQ_IF_NULL(rat_speed_kilometersperhour, 250, 9);
rat_speed_kilometersperhour == Frac(INT(250), INT(9))
\* INIT_AND_DUMP_RAW_RAT_IF_NULL(rat_length_jumbojet, 76);
rat_length_jumbojet == INT(76)
\* INIT_AND_DUMP_RAW_RAT_FRAQ_IF_NULL(rat_0_125, 1, 8);
rat_0_125 == Frac(INT(1), INT(8))
\* INIT_AND_DUMP_RAW_RAT_FRAQ_IF_NULL(rat_data_bit, 1, 8000000);
rat_data_bit == Frac(INT(1), INT(8000000))
\* INIT_AND_DUMP_RAW_RAT_FRAQ_IF_NULL(rat_length_nanometer, 1, 100000000);
rat_length_nanometer == Frac(INT(1), INT(100000000))
\* INIT_AND_DUMP_RAW_RAT_FRAQ_IF_NULL(rat_0_000002, 2, 100000);
rat_0_000002 == Frac(INT(2), INT(100000))
\* INIT_AND_DUMP_RAW_RAT_FRAQ_IF_NULL(rat_0_000001, 1, 100000);
rat_0_000001 == Frac(INT(1), INT(100000))
\* INIT_AND_DUMP_RAW_RAT_FRAQ_IF_NULL(rat_0_00001, 1, 10000);
rat_0_00001 == Frac(INT(1), INT(10000))
\* INIT_AND_DUMP_RAW_RAT_FRAQ_IF_NULL(rat_0_0002, 2, 10000);
rat_0_0002 == Frac(INT(2), INT(10000))
\* INIT_AND_DUMP_RAW_RAT_FRAQ_IF_NULL(rat_0_0001, 1, 10000);
rat_0_0001 == Frac(INT(1), INT(10000))
\* INIT_AND_DUMP_RAW_RAT_FRAQ_IF_NULL(rat_0_001, 1, 1000);
rat_0_001 == Frac(INT(1), INT(1000))
\* INIT_AND_DUMP_RAW_RAT_FRAQ_IF_NULL(rat_0_01, 1, 100);
rat_0_01 == Frac(INT(1), INT(100))
\* INIT_AND_DUMP_RAW_RAT_FRAQ_IF_NULL(rat_0_1, 1, 10);
rat_0_1 == Frac(INT(1), INT(10))
\* INIT_AND_DUMP_RAW_RAT_FRAQ_IF_NULL(rat_angle_gradian, 9, 10);
rat_angle_gradian == Frac(INT(9), INT(10))
\* INIT_AND_DUMP_RAW_RAT_FRAQ_IF_NULL(rat_angle_radian, 5729577951308233, 100000000000000);
\*   where 5729577951308233 = 11 * 520870722846203
\*   where 100000000000000 = 100000 * 1000000000
rat_angle_radian == Frac(Times(INT(11), PRIME("520870722846203")), Times(INT(100000), INT(1000000000)))
\* INIT_AND_DUMP_RAW_RAT_FRAQ_IF_NULL(rat_area_acre, 40468564224, 10000000);
\*   where 40468564224 = 1264642632 * 32
rat_area_acre == Frac(Times(INT(1264642632), INT(32)), INT(10000000))
\* INIT_AND_DUMP_RAW_RAT_FRAQ_IF_NULL(rat_area_hand, 12516104, 1000000000);
rat_area_hand == Frac(INT(12516104), INT(1000000000))
\* INIT_AND_DUMP_RAW_RAT_FRAQ_IF_NULL(rat_area_paper, 6032246, 100000000);
rat_area_paper == Frac(INT(6032246), INT(100000000))
\* INIT_AND_DUMP_RAW_RAT_FRAQ_IF_NULL(rat_area_pyeong, 400, 121);
rat_area_pyeong == Frac(INT(400), INT(121))
\* INIT_AND_DUMP_RAW_RAT_FRAQ_IF_NULL(rat_area_soccerfield, 1086966, 100);
rat_area_soccerfield == Frac(INT(1086966), INT(100))
\* INIT_AND_DUMP_RAW_RAT_FRAQ_IF_NULL(rat_area_squarefoot, 144*64516, 10000);
rat_area_squarefoot == Frac(INT(144*64516), INT(10000))
\* INIT_AND_DUMP_RAW_RAT_FRAQ_IF_NULL(rat_area_squareinch, 64516, 100000000);
rat_area_squareinch == Frac(INT(64516), INT(100000000))
\* INIT_AND_DUMP_RAW_RAT_FRAQ_IF_NULL(rat_area_squaremile, 4014489600 * 64516, 10000);
\*   where 4014489600 = 2007244800 * 2
rat_area_squaremile == Frac(Times(Times(INT(2007244800), INT(2)), INT(64516)), INT(10000))
\* INIT_AND_DUMP_RAW_RAT_FRAQ_IF_NULL(rat_area_squareyard, 1296*64516, 10000);
rat_area_squareyard == Frac(INT(1296*64516), INT(10000))
\* INIT_AND_DUMP_RAW_RAT_IF_NULL(rat_data_cd, 700 * 1024 * 1024);
rat_data_cd == INT(700 * 1024 * 1024)
\* INIT_AND_DUMP_RAW_RAT_FRAQ_IF_NULL(rat_data_dvd, 47*1024*1024*1024, 10000000);
rat_data_dvd == Frac(Times(INT(47*1024*1024), INT(1024)), INT(10000000))
\* INIT_AND_DUMP_RAW_RAT_IF_NULL(rat_data_exabits, 125000000000);
\*   where 125000000000 = 125 * 1000000000
rat_data_exabits == Times(INT(125), INT(1000000000))
\* INIT_AND_DUMP_RAW_RAT_IF_NULL(rat_data_exabytes, 1000000000000);
\*   where 1000000000000 = 1000 * 1000000000
rat_data_exabytes == Times(INT(1000), INT(1000000000))
\* INIT_AND_DUMP_RAW_RAT_FRAQ_IF_NULL(rat_data_exbibits, 1024*1024*1024*1024*1024*1024, 8000000);
rat_data_exbibits == Frac(Times(INT(1024*1024*1024), INT(1024*1024*1024)), INT(8000000))
\* INIT_AND_DUMP_RAW_RAT_IF_NULL(rat_data_exbibytes, 1024*1024*1024*1024*1024*1024);
rat_data_exbibytes == Times(INT(1024*1024*1024), INT(1024*1024*1024))
\* INIT_AND_DUMP_RAW_RAT_FRAQ_IF_NULL(rat_data_floppydisk, 144*1024*1024, 100000000);
rat_data_floppydisk == Frac(INT(144*1024*1024), INT(100000000))
\* INIT_AND_DUMP_RAW_RAT_IF_NULL(rat_data_gibibits, 1024*1024*1024, 8000000);
rat_data_gibibits == Frac(INT(1024*1024*1024), INT(8000000))
\* INIT_AND_DUMP_RAW_RAT_IF_NULL(rat_data_gibibytes, 1024*1024*1024);
rat_data_gibibytes == INT(1024*1024*1024)
\* INIT_AND_DUMP_RAW_RAT_IF_NULL(rat_data_gigabit, 125);
rat_data_gigabit == INT(125)
\* INIT_AND_DUMP_RAW_RAT_FRAQ_IF_NULL(rat_data_kibibits, 1024, 8000000);
rat_data_kibibits == Frac(INT(1024), INT(8000000))
\* INIT_AND_DUMP_RAW_RAT_FRAQ_IF_NULL(rat_data_kibibytes, 1024, 1000000);
rat_data_kibibytes == Frac(INT(1024), INT(1000000))
\* INIT_AND_DUMP_RAW_RAT_FRAQ_IF_NULL(rat_data_kilobit, 1, 8000);
rat_data_kilobit == Frac(INT(1), INT(8000))
\* INIT_AND_DUMP_RAW_RAT_FRAQ_IF_NULL(rat_data_mebibits, 1024*1024, 8000000);
rat_data_mebibits == Frac(INT(1024*1024), INT(8000000))
\* INIT_AND_DUMP_RAW_RAT_FRAQ_IF_NULL(rat_data_mebibytes, 1024*1024, 1000000);
rat_data_mebibytes == Frac(INT(1024*1024), INT(1000000))
\* INIT_AND_DUMP_RAW_RAT_FRAQ_IF_NULL(rat_data_pebibits, 1024*1024*1024*1024*1024, 8000000);
rat_data_pebibits == Frac(Times(INT(1024*1024*1024), INT(1024*1024)), INT(8000000))
\* INIT_AND_DUMP_RAW_RAT_FRAQ_IF_NULL(rat_data_pebibytes, 1024*1024*1024*1024*1024, 1000000);
rat_data_pebibytes == Frac(Times(INT(1024*1024*1024), INT(1024*1024)), INT(1000000))
\* INIT_AND_DUMP_RAW_RAT_IF_NULL(rat_data_petabit, 125000000);
rat_data_petabit == INT(125000000)
\* INIT_AND_DUMP_RAW_RAT_IF_NULL(rat_data_petabyte, 1000000000);
rat_data_petabyte == INT(1000000000)
\* INIT_AND_DUMP_RAW_RAT_FRAQ_IF_NULL(rat_data_tebibits, 1024*1024*1024*1024, 8000000);
rat_data_tebibits == Frac(Times(INT(1024*1024*1024), INT(1024)), INT(8000000))
\* INIT_AND_DUMP_RAW_RAT_FRAQ_IF_NULL(rat_data_tebibytes, 1024*1024*1024*1024, 1000000);
rat_data_tebibytes == Frac(Times(INT(1024*1024*1024), INT(1024)), INT(1000000))
\* INIT_AND_DUMP_RAW_RAT_IF_NULL(rat_data_terabit, 125000);
rat_data_terabit == INT(125000)
\* INIT_AND_DUMP_RAW_RAT_FRAQ_IF_NULL(rat_data_yobibits, 1024*1024*1024*1024*1024*1024*1024, 8000000);
rat_data_yobibits == Frac(Times(Times(INT(1024*1024*1024), INT(1024*1024*1024)), INT(1024)), INT(8000000))
\* INIT_AND_DUMP_RAW_RAT_FRAQ_IF_NULL(rat_data_yobibytes, 1024*1024*1024*1024*1024*1024*1024, 1000000);
rat_data_yobibytes == Frac(Times(Times(INT(1024*1024*1024), INT(1024*1024*1024)), INT(1024)), INT(1000000))
\* INIT_AND_DUMP_RAW_RAT_IF_NULL(rat_data_yottabit, 125000000000000000);
\*   where 125000000000000000 = 125000000 * 1000000000
rat_data_yottabit == Times(INT(125000000), INT(1000000000))
\* INIT_AND_DUMP_RAW_RAT_IF_NULL(rat_data_yottabyte, 1000000000000000000);
\*   where 1000000000000000000 = 1000000000 * 1000000000
rat_data_yottabyte == Times(INT(1000000000), INT(1000000000))
\* INIT_AND_DUMP_RAW_RAT_FRAQ_IF_NULL(rat_data_zebibits, 1024*1024*1024*1024*1024*1024, 8000000);
rat_data_zebibits == Frac(Times(INT(1024*1024*1024), INT(1024*1024*1024)), INT(8000000))
\* INIT_AND_DUMP_RAW_RAT_FRAQ_IF_NULL(rat_data_zebibytes, 1024*1024*1024*1024*1024*1024, 1000000);
rat_data_zebibytes == Frac(Times(INT(1024*1024*1024), INT(1024*1024*1024)), INT(1000000))
\* INIT_AND_DUMP_RAW_RAT_IF_NULL(rat_data_zetabits, 125000000000000);
\*   where 125000000000000 = 125000 * 1000000000
rat_data_zetabits == Times(INT(125000), INT(1000000000))
\* INIT_AND_DUMP_RAW_RAT_IF_NULL(rat_data_zetabytes, 1000000000000000);
\*   where 1000000000000000 = 1000000 * 1000000000
rat_data_zetabytes == Times(INT(1000000), INT(1000000000))
\* INIT_AND_DUMP_RAW_RAT_IF_NULL(rat_energy_banana, 439614);
rat_energy_banana == INT(439614)
\* INIT_AND_DUMP_RAW_RAT_IF_NULL(rat_energy_battery, 9000);
rat_energy_battery == INT(9000)
\* INIT_AND_DUMP_RAW_RAT_FRAQ_IF_NULL(rat_energy_britishthermalunit, 10550559, 10000);
rat_energy_britishthermalunit == Frac(INT(10550559), INT(10000))
\* INIT_AND_DUMP_RAW_RAT_FRAQ_IF_NULL(rat_energy_calorie, 4184, 1000);
rat_energy_calorie == Frac(INT(4184), INT(1000))
\* INIT_AND_DUMP_RAW_RAT_FRAQ_IF_NULL(rat_energy_electronvolt, 1602176565, 100000000000000000000);
\*   where 100000000000000000000 = 100 * 1000000000 * 1000000000
rat_energy_electronvolt == Frac(INT(1602176565), Times(Times(INT(100), INT(1000000000)), INT(1000000000)))
\* INIT_AND_DUMP_RAW_RAT_FRAQ_IF_NULL(rat_energy_footpound, 13558179483314004, 10000000000000000);
\*   where 13558179483314004 = 170159387 * 79679292
\*   where 10000000000000000 = 10000000 * 1000000000
rat_energy_footpound == Frac(Times(INT(170159387), INT(79679292)), Times(INT(10000000), INT(1000000000)))
\* INIT_AND_DUMP_RAW_RAT_IF_NULL(rat_energy_kilocalorie, 4184);
rat_energy_kilocalorie == INT(4184)
\* INIT_AND_DUMP_RAW_RAT_IF_NULL(rat_energy_sliceofcake, 1046700);
rat_energy_sliceofcake == INT(1046700)
\* INIT_AND_DUMP_RAW_RAT_FRAQ_IF_NULL(rat_power_footpoundperminute, 13558179483314004, 60*10000000000000000);
\*   where 13558179483314004 = 170159387 * 79679292
\*   where 10000000000000000 = 10000000 * 1000000000
rat_power_footpoundperminute == Frac(Times(INT(170159387), INT(79679292)), Times(INT(60), Times(INT(10000000), INT(1000000000))))
\* INIT_AND_DUMP_RAW_RAT_FRAQ_IF_NULL(rat_power_trainengine, 2982799486329081, 1000000000);
\*   where 2982799486329081 = 57 * 52329815549633
rat_power_trainengine == Frac(Times(INT(57), PRIME("52329815549633")), INT(1000000000))
\* INIT_AND_DUMP_RAW_RAT_FRAQ_IF_NULL(rat_speed_feetpersecond, 3048, 100);
rat_speed_feetpersecond == Frac(INT(3048), INT(100))
\* INIT_AND_DUMP_RAW_RAT_FRAQ_IF_NULL(rat_speed_horse, 20115, 10);
rat_speed_horse == Frac(INT(20115), INT(10))
\* INIT_AND_DUMP_RAW_RAT_IF_NULL(rat_speed_jet, 24585);
rat_speed_jet == INT(24585)
\* INIT_AND_DUMP_RAW_RAT_FRAQ_IF_NULL(rat_speed_knot, 4 + (51*9), 9);
rat_speed_knot == Frac(INT(4 + (51*9)), INT(9))
\* INIT_AND_DUMP_RAW_RAT_IF_NULL(rat_speed_mach, 34030);
rat_speed_mach == INT(34030)
\* INIT_AND_DUMP_RAW_RAT_FRAQ_IF_NULL(rat_speed_milesperhour, 447, 10);
rat_speed_milesperhour == Frac(INT(447), INT(10))
\* INIT_AND_DUMP_RAW_RAT_FRAQ_IF_NULL(rat_speed_turtle, 894, 100);
rat_speed_turtle == Frac(INT(894), INT(100))
\* INIT_AND_DUMP_RAW_RAT_IF_NULL(rat_time_day, 24 * 60 * 60);
rat_time_day == INT(24 * 60 * 60)
\* INIT_AND_DUMP_RAW_RAT_IF_NULL(rat_time_hour, 60 * 60);
rat_time_hour == INT(60 * 60)
\* INIT_AND_DUMP_RAW_RAT_IF_NULL(rat_time_week, 7 * 24 * 60 * 60);
rat_time_week == INT(7 * 24 * 60 * 60)
\* INIT_AND_DUMP_RAW_RAT_IF_NULL(rat_time_year, (1461 * 6) * 60 * 60);
rat_time_year == INT((1461 * 6 ) * 60 * 60)
\* INIT_AND_DUMP_RAW_RAT_IF_NULL(rat_volume_bathtub, 400 * 946353, 1000);
rat_volume_bathtub == Frac(INT(400 * 946353), INT(1000))
\* INIT_AND_DUMP_RAW_RAT_IF_NULL(rat_volume_coffeecup, 2365882, 10000);
rat_volume_coffeecup == Frac(INT(2365882), INT(10000))
\* INIT_AND_DUMP_RAW_RAT_IF_NULL(rat_volume_cubicfoot, 254*254*254*12*12*12, 100*100*100);
rat_volume_cubicfoot == Frac(Times(INT(254*254*254*12), INT(12*12)), INT(100*100*100))
\* INIT_AND_DUMP_RAW_RAT_IF_NULL(rat_volume_cubicinch, 254*254*254, 100*100*100);
rat_volume_cubicinch == Frac(INT(254*254*254), INT(100*100*100))
\* INIT_AND_DUMP_RAW_RAT_IF_NULL(rat_volume_cubicyard, 254*254*254*12*12*12*3*3*3, 100*100*100);
rat_volume_cubicyard == Frac(Times(INT(254*254*254*12), INT(12*12*3*3*3)), INT(100*100*100))
\* INIT_AND_DUMP_RAW_RAT_IF_NULL(rat_volume_cupus, 236588237, 1000000);
rat_volume_cupus == Frac(INT(236588237), INT(1000000))
\* INIT_AND_DUMP_RAW_RAT_IF_NULL(rat_volume_fluidounceuk, 284130625, 10000000);
rat_volume_fluidounceuk == Frac(INT(284130625), INT(10000000))
\* INIT_AND_DUMP_RAW_RAT_IF_NULL(rat_volume_fluidounceus, 295735295625, 10000000000);
\*   where 295735295625 = 788627455 * 375
\*   where 10000000000 = 10 * 1000000000
rat_volume_fluidounceus == Frac(Times(INT(788627455), INT(375)), Times(INT(10), INT(1000000000)))
\* INIT_AND_DUMP_RAW_RAT_IF_NULL(rat_volume_gallonuk, 454609, 100);
rat_volume_gallonuk == Frac(INT(454609), INT(100))
\* INIT_AND_DUMP_RAW_RAT_IF_NULL(rat_volume_gallonus, 3785411784, 1000000);
\*   where 3785411784 = 1892705892 * 2
rat_volume_gallonus == Frac(Times(INT(1892705892), INT(2)), INT(1000000))
\* INIT_AND_DUMP_RAW_RAT_IF_NULL(rat_volume_pintuk, 56826125, 100000);
rat_volume_pintuk == Frac(INT(56826125), INT(100000))
\* INIT_AND_DUMP_RAW_RAT_IF_NULL(rat_volume_pintus, 473176473, 1000000);
rat_volume_pintus == Frac(INT(473176473), INT(1000000))
\* INIT_AND_DUMP_RAW_RAT_IF_NULL(rat_volume_quartuk, 11365225, 10000);
rat_volume_quartuk == Frac(INT(11365225), INT(10000))
\* INIT_AND_DUMP_RAW_RAT_IF_NULL(rat_volume_quartus, 946352946, 1000000);
rat_volume_quartus == Frac(INT(946352946), INT(1000000))
\* INIT_AND_DUMP_RAW_RAT_IF_NULL(rat_volume_swimmingpool, 3750000000);
\*   where 3750000000 = 1875000000 * 2
rat_volume_swimmingpool == Times(INT(1875000000), INT(2))
\* INIT_AND_DUMP_RAW_RAT_IF_NULL(rat_volume_tablespoonuk, 177581640625, 10000000000);
\*   where 177581640625 = 1420653125 * 125
\*   where 10000000000 = 10 * 1000000000
rat_volume_tablespoonuk == Frac(Times(INT(1420653125), INT(125)), Times(INT(10), INT(1000000000)))
\* INIT_AND_DUMP_RAW_RAT_IF_NULL(rat_volume_tablespoonus, 1478676478125, 100000000000);
\*   where 1478676478125 = 788627455 * 1875
\*   where 100000000000 = 100 * 1000000000
rat_volume_tablespoonus == Frac(Times(INT(788627455), INT(1875)), Times(INT(100), INT(1000000000)))
\* INIT_AND_DUMP_RAW_RAT_IF_NULL(rat_volume_teaspoonuk, 1420653125, 240000000);
rat_volume_teaspoonuk == Frac(INT(1420653125), INT(240000000))
\* INIT_AND_DUMP_RAW_RAT_IF_NULL(rat_volume_teaspoonus, 231*254*254*254, 6*128*100*100*100);
rat_volume_teaspoonus == Frac(Times(INT(231*254*254), INT(254)), INT(6*128*100*100*100))
\* INIT_AND_DUMP_RAW_RAT_IF_NULL(rat_weight_elephant, 4000);
rat_weight_elephant == INT(4000)
\* INIT_AND_DUMP_RAW_RAT_IF_NULL(rat_weight_longton, 10160469088, 10000000);
\*   where 10160469088 = 1270058636 * 8
rat_weight_longton == Frac(Times(INT(1270058636), INT(8)), INT(10000000))
\* INIT_AND_DUMP_RAW_RAT_IF_NULL(rat_weight_ounce, 45359237, 1600000000);
rat_weight_ounce == Frac(INT(45359237), INT(1600000000))
\* INIT_AND_DUMP_RAW_RAT_IF_NULL(rat_weight_pound, 45359237, 100000000);
rat_weight_pound == Frac(INT(45359237), INT(100000000))
\* INIT_AND_DUMP_RAW_RAT_IF_NULL(rat_weight_shortton, 90718474, 100000);
rat_weight_shortton == Frac(INT(90718474), INT(100000))
\* INIT_AND_DUMP_RAW_RAT_IF_NULL(rat_weight_soccerball, 4325, 10000);
rat_weight_soccerball == Frac(INT(4325), INT(10000))
\* INIT_AND_DUMP_RAW_RAT_IF_NULL(rat_weight_stone, 14*45359237, 100000000);
rat_weight_stone == Frac(INT(14*45359237), INT(100000000))
\* INIT_AND_DUMP_RAW_RAT_IF_NULL(rat_weight_whale, 90000);
rat_weight_whale == INT(90000)
\* INIT_AND_DUMP_RAW_RAT_FRAQ_IF_NULL(rat_temperature_degreescelsius_farenheit, 18, 10);
rat_temperature_degreescelsius_farenheit == Frac(INT(18), INT(10))
\* INIT_AND_DUMP_RAW_RAT_FRAQ_IF_NULL(rat_temperature_degreesfarenheit_celsius, 10, 18);
rat_temperature_degreesfarenheit_celsius == Frac(INT(10), INT(18))
\* INIT_AND_DUMP_RAW_RAT_FRAQ_IF_NULL(rat_temperature_offset_celsius_kelvin, 27315, 100);
rat_temperature_offset_celsius_kelvin == Frac(INT(27315), INT(100))
\* INIT_AND_DUMP_RAW_RAT_FRAQ_IF_NULL(rat_temperature_offset_kelvin_celsius, -27315, 100);
rat_temperature_offset_kelvin_celsius == Frac(INT(-27315), INT(100))
\* INIT_AND_DUMP_RAW_RAT_FRAQ_IF_NULL(rat_temperature_offset_farenheit_kelvin, 45967, 100);
rat_temperature_offset_farenheit_kelvin == Frac(INT(45967), INT(100))
\* INIT_AND_DUMP_RAW_RAT_FRAQ_IF_NULL(rat_temperature_offset_kelvin_farenheit, -45967, 100);
rat_temperature_offset_kelvin_farenheit == Frac(INT(-45967), INT(100))
\* INIT_AND_DUMP_RAW_RAT_IF_NULL(rat_temperature_offset_farenheit_celsius, -32);
rat_temperature_offset_farenheit_celsius == INT(-32)
\* INIT_AND_DUMP_RAW_RAT_IF_NULL(rat_temperature_offset_celsius_farenheit, 32);
rat_temperature_offset_celsius_farenheit == INT(32)
\* PRAT rat_power_britishthermalunitperminute = nullptr;  (no INIT_AND_DUMP_RAW_RAT..._IF_NULL names it: it stays nullptr)
rat_power_britishthermalunitperminute == nullptr

\* struct UnitData { categoryId, unitId, factor }
UnitData(categoryId, unitId, factor) ==
    [categoryId |-> categoryId, unitId |-> unitId, factor |-> factor]

unitDataList ==
    << UnitData("Area", "Area_Acre", rat_area_acre),
       UnitData("Area", "Area_SquareMeter", rat_one),
       UnitData("Area", "Area_SquareFoot", rat_area_squarefoot),
       UnitData("Area", "Area_SquareYard", rat_area_squareyard),
       UnitData("Area", "Area_SquareMillimeter", rat_0_000001),
       UnitData("Area", "Area_SquareCentimeter", rat_0_0001),
       UnitData("Area", "Area_SquareInch", rat_area_squareinch),
       UnitData("Area", "Area_SquareMile", rat_area_squaremile),
       UnitData("Area", "Area_SquareKilometer", rat_1000000),
       UnitData("Area", "Area_Hectare", rat_10000),
       UnitData("Area", "Area_Hand", rat_area_hand),
       UnitData("Area", "Area_Paper", rat_area_paper),
       UnitData("Area", "Area_SoccerField", rat_area_soccerfield),
       UnitData("Area", "Area_Castle", rat_100000),
       UnitData("Area", "Area_Pyeong", rat_area_pyeong),
       UnitData("Data", "Data_Bit", rat_data_bit),
       UnitData("Data", "Data_Byte", rat_0_000001),
       UnitData("Data", "Data_Kilobyte", rat_0_001),
       UnitData("Data", "Data_Megabyte", rat_one),
       UnitData("Data", "Data_Gigabyte", rat_1000),
       UnitData("Data", "Data_Terabyte", rat_1000000),
       UnitData("Data", "Data_Petabyte", rat_data_petabyte),
       UnitData("Data", "Data_Exabytes", rat_data_exabytes),
       UnitData("Data", "Data_Zetabytes", rat_data_zetabytes),
       UnitData("Data", "Data_Yottabyte", rat_data_yottabyte),
       UnitData("Data", "Data_Kilobit", rat_data_kilobit),
       UnitData("Data", "Data_Megabit", rat_0_125),
       UnitData("Data", "Data_Gigabit", rat_data_gigabit),
       UnitData("Data", "Data_Terabit", rat_data_terabit),
       UnitData("Data", "Data_Petabit", rat_data_petabit),
       UnitData("Data", "Data_Exabits", rat_data_exabits),
       UnitData("Data", "Data_Zetabits", rat_data_zetabits),
       UnitData("Data", "Data_Yottabit", rat_data_yottabit),
       UnitData("Data", "Data_Gibibits", rat_data_gibibits),
       UnitData("Data", "Data_Gibibytes", rat_data_gibibytes),
       UnitData("Data", "Data_Kibibits", rat_data_kibibits),
       UnitData("Data", "Data_Kibibytes", rat_data_kibibytes),
       UnitData("Data", "Data_Mebibits", rat_data_mebibits),
       UnitData("Data", "Data_Mebibytes", rat_data_mebibytes),
       UnitData("Data", "Data_Pebibits", rat_data_pebibits),
       UnitData("Data", "Data_Pebibytes", rat_data_pebibytes),
       UnitData("Data", "Data_Tebibits", rat_data_tebibits),
       UnitData("Data", "Data_Tebibytes", rat_data_tebibytes),
       UnitData("Data", "Data_Exbibits", rat_data_exbibits),
       UnitData("Data", "Data_Exbibytes", rat_data_exbibytes),
       UnitData("Data", "Data_Zebibits", rat_data_zebibits),
       UnitData("Data", "Data_Zebibytes", rat_data_zebibytes),
       UnitData("Data", "Data_Yobibits", rat_data_yobibits),
       UnitData("Data", "Data_Yobibytes", rat_data_yobibytes),
       UnitData("Data", "Data_FloppyDisk", rat_data_floppydisk),
       UnitData("Data", "Data_CD", rat_data_cd),
       UnitData("Data", "Data_DVD", rat_data_dvd),
       UnitData("Energy", "Energy_Calorie", rat_energy_calorie),
       UnitData("Energy", "Energy_Kilocalorie", rat_energy_kilocalorie),
       UnitData("Energy", "Energy_BritishThermalUnit", rat_energy_britishthermalunit),
       UnitData("Energy", "Energy_Kilojoule", rat_1000),
       UnitData("Energy", "Energy_ElectronVolt", rat_energy_electronvolt),
       UnitData("Energy", "Energy_Joule", rat_one),
       UnitData("Energy", "Energy_FootPound", rat_energy_footpound),
       UnitData("Energy", "Energy_Battery", rat_energy_battery),
       UnitData("Energy", "Energy_Banana", rat_energy_banana),
       UnitData("Energy", "Energy_SliceOfCake", rat_energy_sliceofcake),
       UnitData("Length", "Length_Inch", rat_length_inch),
       UnitData("Length", "Length_Foot", rat_foot),
       UnitData("Length", "Length_Yard", rat_length_yard),
       UnitData("Length", "Length_Mile", rat_length_mile),
       UnitData("Length", "Length_Micron", rat_0_000001),
       UnitData("Length", "Length_Millimeter", rat_0_001),
       UnitData("Length", "Length_Nanometer", rat_length_nanometer),
       UnitData("Length", "Length_Centimeter", rat_0_01),
       UnitData("Length", "Length_Meter", rat_one),
       UnitData("Length", "Length_Kilometer", rat_1000),
       UnitData("Length", "Length_NauticalMile", rat_length_nauticalmile),
       UnitData("Length", "Length_Paperclip", rat_length_paperclip),
       UnitData("Length", "Length_Hand", rat_length_hand),
       UnitData("Length", "Length_JumboJet", rat_length_jumbojet),
       UnitData("Power", "Power_BritishThermalUnitPerMinute", rat_power_britishthermalunitperminute),
       UnitData("Power", "Power_FootPoundPerMinute", rat_power_footpoundperminute),
       UnitData("Power", "Power_Watt", rat_one),
       UnitData("Power", "Power_Kilowatt", rat_1000),
       UnitData("Power", "Power_Horsepower", rat_power_horsepower),
       UnitData("Power", "Power_LightBulb", rat_60),
       UnitData("Power", "Power_Horse", rat_power_horse),
       UnitData("Power", "Power_TrainEngine", rat_power_trainengine),
       UnitData("Time", "Time_Day", rat_time_day),
       UnitData("Time", "Time_Second", rat_one),
       UnitData("Time", "Time_Week", rat_time_week),
       UnitData("Time", "Time_Year", rat_time_year),
       UnitData("Time", "Time_Millisecond", rat_0_001),
       UnitData("Time", "Time_Microsecond", rat_0_000001),
       UnitData("Time", "Time_Minute", rat_60),
       UnitData("Time", "Time_Hour", rat_time_hour),
       UnitData("Volume", "Volume_CupUS", rat_volume_cupus),
       UnitData("Volume", "Volume_PintUS", rat_volume_pintus),
       UnitData("Volume", "Volume_PintUK", rat_volume_pintuk),
       UnitData("Volume", "Volume_QuartUS", rat_volume_quartus),
       UnitData("Volume", "Volume_QuartUK", rat_volume_quartuk),
       UnitData("Volume", "Volume_GallonUS", rat_volume_gallonus),
       UnitData("Volume", "Volume_GallonUK", rat_volume_gallonuk),
       UnitData("Volume", "Volume_Liter", rat_1000),
       UnitData("Volume", "Volume_TeaspoonUS", rat_volume_teaspoonus),
       UnitData("Volume", "Volume_TablespoonUS", rat_volume_tablespoonus),
       UnitData("Volume", "Volume_CubicCentimeter", rat_one),
       UnitData("Volume", "Volume_CubicYard", rat_volume_cubicyard),
       UnitData("Volume", "Volume_CubicMeter", rat_1000000),
       UnitData("Volume", "Volume_Milliliter", rat_one),
       UnitData("Volume", "Volume_CubicInch", rat_volume_cubicinch),
       UnitData("Volume", "Volume_CubicFoot", rat_volume_cubicfoot),
       UnitData("Volume", "Volume_FluidOunceUS", rat_volume_fluidounceus),
       UnitData("Volume", "Volume_FluidOunceUK", rat_volume_fluidounceuk),
       UnitData("Volume", "Volume_TeaspoonUK", rat_volume_teaspoonuk),
       UnitData("Volume", "Volume_TablespoonUK", rat_volume_tablespoonuk),
       UnitData("Volume", "Volume_CoffeeCup", rat_volume_coffeecup),
       UnitData("Volume", "Volume_Bathtub", rat_volume_bathtub),
       UnitData("Volume", "Volume_SwimmingPool", rat_volume_swimmingpool),
       UnitData("Weight", "Weight_Kilogram", rat_one),
       UnitData("Weight", "Weight_Hectogram", rat_0_1),
       UnitData("Weight", "Weight_Decagram", rat_0_01),
       UnitData("Weight", "Weight_Gram", rat_0_001),
       UnitData("Weight", "Weight_Pound", rat_weight_pound),
       UnitData("Weight", "Weight_Ounce", rat_weight_ounce),
       UnitData("Weight", "Weight_Milligram", rat_0_000001),
       UnitData("Weight", "Weight_Centigram", rat_0_00001),
       UnitData("Weight", "Weight_Decigram", rat_0_0001),
       UnitData("Weight", "Weight_LongTon", rat_weight_longton),
       UnitData("Weight", "Weight_Tonne", rat_1000),
       UnitData("Weight", "Weight_Stone", rat_weight_stone),
       UnitData("Weight", "Weight_Carat", rat_0_0002),
       UnitData("Weight", "Weight_ShortTon", rat_weight_shortton),
       UnitData("Weight", "Weight_Snowflake", rat_0_000002),
       UnitData("Weight", "Weight_SoccerBall", rat_weight_soccerball),
       UnitData("Weight", "Weight_Elephant", rat_weight_elephant),
       UnitData("Weight", "Weight_Whale", rat_weight_whale),
       UnitData("Speed", "Speed_CentimetersPerSecond", rat_one),
       UnitData("Speed", "Speed_FeetPerSecond", rat_speed_feetpersecond),
       UnitData("Speed", "Speed_KilometersPerHour", rat_speed_kilometersperhour),
       UnitData("Speed", "Speed_Knot", rat_speed_knot),
       UnitData("Speed", "Speed_Mach", rat_speed_mach),
       UnitData("Speed", "Speed_MetersPerSecond", rat_100),
       UnitData("Speed", "Speed_MilesPerHour", rat_speed_milesperhour),
       UnitData("Speed", "Speed_Turtle", rat_speed_turtle),
       UnitData("Speed", "Speed_Horse", rat_speed_horse),
       UnitData("Speed", "Speed_Jet", rat_speed_jet),
       UnitData("Angle", "Angle_Degree", rat_one),
       UnitData("Angle", "Angle_Radian", rat_angle_radian),
       UnitData("Angle", "Angle_Gradian", rat_angle_gradian),
       UnitData("Pressure", "Pressure_Atmosphere", rat_one),
       UnitData("Pressure", "Pressure_Bar", rat_pressure_bar),
       UnitData("Pressure", "Pressure_KiloPascal", rat_pressure_kilopascal),
       UnitData("Pressure", "Pressure_MillimeterOfMercury", rat_pressure_millimeterofmercury),
       UnitData("Pressure", "Pressure_Pascal", rat_pressure_pascal),
       UnitData("Pressure", "Pressure_PSI", rat_pressure_psi) >>

\* The loop that fills categoryToUnitConversionMap from unitDataList: insert
\* keeps the factor of the first entry listed for a (category, unit) pair.
\* The populate loop without the test on categoryId: every row of the
\* list goes into the map of every category.
PopulateConversionMap_OneRowForAll(list) ==
    [c \in {list[k].categoryId : k \in DOMAIN list} |->
        [u \in {list[k].unitId : k \in DOMAIN list} |->
            list[CHOOSE k \in DOMAIN list :
                    /\ list[k].unitId = u
                    /\ \A j \in 1..(k - 1) : list[j].unitId # u].factor]]

PopulateConversionMap(list) ==
    [c \in {list[k].categoryId : k \in DOMAIN list} |->
        [u \in {list[k].unitId : k \in {j \in DOMAIN list : list[j].categoryId = c}} |->
            list[CHOOSE k \in DOMAIN list :
                    /\ list[k].categoryId = c /\ list[k].unitId = u
                    /\ \A j \in 1..(k - 1) : ~(list[j].categoryId = c /\ list[j].unitId = u)].factor]]

GetConversionData == PopulateConversionMap(unitDataList)

\* The flag with the value that applies every offset after the ratio.
CONVERT_WITH_OFFSET_FIRST_Cleared == FALSE

CONVERT_WITH_OFFSET_FIRST == TRUE

\* struct ExplicitUnitConversionData : ConversionData
\*     { categoryId, parentUnitId, unitId, ratio, offset, offsetFirst = false }
\* rest holds the offsetFirst argument when the initialiser spells it out.
ExplicitUnitConversionData(categoryId, parentUnitId, unitId, ratio, offset, rest) ==
    [categoryId |-> categoryId, parentUnitId |-> parentUnitId, unitId |-> unitId,
     ratio |-> ratio, offset |-> offset,
     offsetFirst |-> IF Len(rest) >= 1 THEN rest[1] ELSE FALSE]

\* static_cast<UCM::ConversionData>(data)
ConversionData(data) ==
    [ratio |-> data.ratio, offset |-> data.offset, offsetFirst |-> data.offsetFirst]

\* conversionDataList without the three entries whose parent unit is Kelvin.
conversionDataList_WithoutKelvinRows ==
    << ExplicitUnitConversionData("Temperature", "Temperature_DegreesCelsius", "Temperature_DegreesCelsius", rat_one, rat_zero, <<>>),
       ExplicitUnitConversionData("Temperature", "Temperature_DegreesCelsius", "Temperature_DegreesFahrenheit", rat_temperature_degreescelsius_farenheit, rat_temperature_offset_celsius_farenheit, <<>>),
       ExplicitUnitConversionData("Temperature", "Temperature_DegreesCelsius", "Temperature_Kelvin", rat_one, rat_temperature_offset_celsius_kelvin, <<>>),
       ExplicitUnitConversionData("Temperature", "Temperature_DegreesFahrenheit", "Temperature_DegreesCelsius", rat_temperature_degreesfarenheit_celsius, rat_temperature_offset_farenheit_celsius, <<CONVERT_WITH_OFFSET_FIRST>>),
       ExplicitUnitConversionData("Temperature", "Temperature_DegreesFahrenheit", "Temperature_DegreesFahrenheit", rat_one, rat_zero, <<>>),
       ExplicitUnitConversionData("Temperature", "Temperature_DegreesFahrenheit", "Temperature_Kelvin", rat_temperature_degreesfarenheit_celsius, rat_temperature_offset_farenheit_kelvin, <<CONVERT_WITH_OFFSET_FIRST>>) >>

conversionDataList ==
    << ExplicitUnitConversionData("Temperature", "Temperature_DegreesCelsius", "Temperature_DegreesCelsius", rat_one, rat_zero, <<>>),
       ExplicitUnitConversionData("Temperature", "Temperature_DegreesCelsius", "Temperature_DegreesFahrenheit", rat_temperature_degreescelsius_farenheit, rat_temperature_offset_celsius_farenheit, <<>>),
       ExplicitUnitConversionData("Temperature", "Temperature_DegreesCelsius", "Temperature_Kelvin", rat_one, rat_temperature_offset_celsius_kelvin, <<>>),
       ExplicitUnitConversionData("Temperature", "Temperature_DegreesFahrenheit", "Temperature_DegreesCelsius", rat_temperature_degreesfarenheit_celsius, rat_temperature_offset_farenheit_celsius, <<CONVERT_WITH_OFFSET_FIRST>>),
       ExplicitUnitConversionData("Temperature", "Temperature_DegreesFahrenheit", "Temperature_DegreesFahrenheit", rat_one, rat_zero, <<>>),
       ExplicitUnitConversionData("Temperature", "Temperature_DegreesFahrenheit", "Temperature_Kelvin", rat_temperature_degreesfarenheit_celsius, rat_temperature_offset_farenheit_kelvin, <<CONVERT_WITH_OFFSET_FIRST>>),
       ExplicitUnitConversionData("Temperature", "Temperature_Kelvin", "Temperature_DegreesCelsius", rat_one, rat_temperature_offset_kelvin_celsius, <<CONVERT_WITH_OFFSET_FIRST>>),
       ExplicitUnitConversionData("Temperature", "Temperature_Kelvin", "Temperature_DegreesFahrenheit", rat_temperature_degreescelsius_farenheit, rat_temperature_offset_kelvin_farenheit, <<>>),
       ExplicitUnitConversionData("Temperature", "Temperature_Kelvin", "Temperature_Kelvin", rat_one, rat_zero, <<>>) >>

\* The populate loop with parentUnitId and unitId taken for one another.
PopulateConversionList_SwappedKeys(list) ==
    [u \in {list[k].unitId : k \in DOMAIN list} |->
        [p \in {list[k].parentUnitId : k \in {j \in DOMAIN list : list[j].unitId = u}} |->
            ConversionData(list[CHOOSE k \in DOMAIN list :
                    /\ list[k].parentUnitId = p /\ list[k].unitId = u
                    /\ \A j \in 1..(k - 1) : ~(list[j].parentUnitId = p /\ list[j].unitId = u)])]]

\* The loop that fills unitToUnitConversionList from conversionDataList:
\* insert keeps the first entry listed for a (parent unit, unit) pair.
PopulateConversionList(list) ==
    [p \in {list[k].parentUnitId : k \in DOMAIN list} |->
        [u \in {list[k].unitId : k \in {j \in DOMAIN list : list[j].parentUnitId = p}} |->
            ConversionData(list[CHOOSE k \in DOMAIN list :
                    /\ list[k].parentUnitId = p /\ list[k].unitId = u
                    /\ \A j \in 1..(k - 1) : ~(list[j].parentUnitId = p /\ list[j].unitId = u)])]]

GetExplicitConversionData == PopulateConversionList(conversionDataList)

----------------------------------------------------------------------------
(* GetCategories and GetUnits *)

Currency == "Currency"

\* NavCategoryGroup::CreateConverterCategory(): the converter categories in
\* display order, each identified by its view mode.
CreateConverterCategory ==
    << "Currency", "Volume", "Length", "Weight", "Temperature", "Energy", "Area",
       "Speed", "Time", "Power", "Data", "Pressure", "Angle" >>

\* GetCategories passing over the Currency category.
GetCategories_WithoutCurrency ==
    [k \in 1..(Len(CreateConverterCategory) - 1) |->
        [id |-> SelectSeq(CreateConverterCategory, LAMBDA mode : mode # Currency)[k]]]

GetCategories ==
    [k \in 1..Len(CreateConverterCategory) |-> [id |-> CreateConverterCategory[k]]]

\* String ids the provider may be unable to resolve: none, the first name
\* GetUnits asks for, or the last abbreviation it asks for.
Unresolvable == {{}, {"UnitName_Acre"}, {"UnitAbbreviation_Gradian"}}

\* The provider's failure to resolve a string id; no string has this value.
LocalizationFailure(stringId) == << "unresolved", stringId >>

\* AppResourceProvider's string for a resource id, or its failure.
GetLocalizedStringName(stringId) ==
    IF stringId \in unresolved THEN LocalizationFailure(stringId) ELSE << "resource", stringId >>

\* OrderedUnit(id, name, abbreviation, order, isConversionSource = false,
\*             isConversionTarget = false, isWhimsical = false)
\* rest holds the trailing arguments the call spells out.
OrderedUnit(id, name, abbreviation, order, rest) ==
    [id |-> id, name |-> name, abbreviation |-> abbreviation, order |-> order,
     isConversionSource |-> IF Len(rest) >= 1 THEN rest[1] ELSE FALSE,
     isConversionTarget |-> IF Len(rest) >= 2 THEN rest[2] ELSE FALSE,
     isWhimsical |-> IF Len(rest) >= 3 THEN rest[3] ELSE FALSE]

\* static_cast<UCM::Unit>(u)
Unit(u) ==
    [id |-> u.id, name |-> u.name, abbreviation |-> u.abbreviation,
     isConversionSource |-> u.isConversionSource,
     isConversionTarget |-> u.isConversionTarget,
     isWhimsical |-> u.isWhimsical]

useUSCustomaryAndFahrenheit ==
    m_currentRegionCode = "US" \/ m_currentRegionCode = "FM" \/ m_currentRegionCode = "MH" \/ m_currentRegionCode = "PW"

\* useUSCustomary without Liberia.
useUSCustomary_WithoutLiberia == useUSCustomaryAndFahrenheit

useUSCustomary == useUSCustomaryAndFahrenheit \/ m_currentRegionCode = "LR"

\* useSI taken from the first predicate: Liberia counts as metric too.
useSI_WithLiberia == ~useUSCustomaryAndFahrenheit

useSI == ~useUSCustomary

\* useFahrenheit without the Bahamas, the Cayman Islands and Liberia.
useFahrenheit_OnlyUSGroup == useUSCustomaryAndFahrenheit

useFahrenheit ==
    useUSCustomaryAndFahrenheit \/ m_currentRegionCode = "BS" \/ m_currentRegionCode = "KY" \/ m_currentRegionCode = "LR"

\* useWattInsteadOfKilowatt testing for a code no region has.
useWattInsteadOfKilowatt_UK == m_currentRegionCode = "UK"

useWattInsteadOfKilowatt == m_currentRegionCode = "GB"

usePyeong == m_currentRegionCode = "KP" \/ m_currentRegionCode = "KR"

areaUnits ==
    << OrderedUnit("Area_Acre", GetLocalizedStringName("UnitName_Acre"), GetLocalizedStringName("UnitAbbreviation_Acre"), 9, <<>>),
       OrderedUnit("Area_Hectare", GetLocalizedStringName("UnitName_Hectare"), GetLocalizedStringName("UnitAbbreviation_Hectare"), 4, <<>>),
       OrderedUnit("Area_SquareCentimeter", GetLocalizedStringName("UnitName_SquareCentimeter"), GetLocalizedStringName("UnitAbbreviation_SquareCentimeter"), 2, <<>>),
       OrderedUnit("Area_SquareFoot", GetLocalizedStringName("UnitName_SquareFoot"), GetLocalizedStringName("UnitAbbreviation_SquareFoot"), 7, <<useSI, useUSCustomary, FALSE>>),
       OrderedUnit("Area_SquareInch", GetLocalizedStringName("UnitName_SquareInch"), GetLocalizedStringName("UnitAbbreviation_SquareInch"), 6, <<>>),
       OrderedUnit("Area_SquareKilometer", GetLocalizedStringName("UnitName_SquareKilometer"), GetLocalizedStringName("UnitAbbreviation_SquareKilometer"), 5, <<>>),
       OrderedUnit("Area_SquareMeter", GetLocalizedStringName("UnitName_SquareMeter"), GetLocalizedStringName("UnitAbbreviation_SquareMeter"), 3, <<useUSCustomary, useSI, FALSE>>),
       OrderedUnit("Area_SquareMile", GetLocalizedStringName("UnitName_SquareMile"), GetLocalizedStringName("UnitAbbreviation_SquareMile"), 10, <<>>),
       OrderedUnit("Area_SquareMillimeter", GetLocalizedStringName("UnitName_SquareMillimeter"), GetLocalizedStringName("UnitAbbreviation_SquareMillimeter"), 1, <<>>),
       OrderedUnit("Area_SquareYard", GetLocalizedStringName("UnitName_SquareYard"), GetLocalizedStringName("UnitAbbreviation_SquareYard"), 8, <<>>),
       OrderedUnit("Area_Hand", GetLocalizedStringName("UnitName_Hand"), GetLocalizedStringName("UnitAbbreviation_Hand"), 11, <<FALSE, FALSE, TRUE>>),
       OrderedUnit("Area_Paper", GetLocalizedStringName("UnitName_Paper"), GetLocalizedStringName("UnitAbbreviation_Paper"), 12, <<FALSE, FALSE, TRUE>>),
       OrderedUnit("Area_SoccerField", GetLocalizedStringName("UnitName_SoccerField"), GetLocalizedStringName("UnitAbbreviation_SoccerField"), 13, <<FALSE, FALSE, TRUE>>),
       OrderedUnit("Area_Castle", GetLocalizedStringName("UnitName_Castle"), GetLocalizedStringName("UnitAbbreviation_Castle"), 14, <<FALSE, FALSE, TRUE>>) >>
    \o (IF usePyeong
        THEN << OrderedUnit("Area_Pyeong", GetLocalizedStringName("UnitName_Pyeong"), GetLocalizedStringName("UnitAbbreviation_Pyeong"), 15, <<FALSE, FALSE, FALSE>>) >>
        ELSE << >>)

dataUnits ==
    << OrderedUnit("Data_Bit", GetLocalizedStringName("UnitName_Bit"), GetLocalizedStringName("UnitAbbreviation_Bit"), 1, <<>>),
       OrderedUnit("Data_Byte", GetLocalizedStringName("UnitName_Byte"), GetLocalizedStringName("UnitAbbreviation_Byte"), 2, <<>>),
       OrderedUnit("Data_Exabits", GetLocalizedStringName("UnitName_Exabits"), GetLocalizedStringName("UnitAbbreviation_Exabits"), 23, <<>>),
       OrderedUnit("Data_Exabytes", GetLocalizedStringName("UnitName_Exabytes"), GetLocalizedStringName("UnitAbbreviation_Exabytes"), 25, <<>>),
       OrderedUnit("Data_Exbibits", GetLocalizedStringName("UnitName_Exbibits"), GetLocalizedStringName("UnitAbbreviation_Exbibits"), 24, <<>>),
       OrderedUnit("Data_Exbibytes", GetLocalizedStringName("UnitName_Exbibytes"), GetLocalizedStringName("UnitAbbreviation_Exbibytes"), 26, <<>>),
       OrderedUnit("Data_Gibibits", GetLocalizedStringName("UnitName_Gibibits"), GetLocalizedStringName("UnitAbbreviation_Gibibits"), 12, <<>>),
       OrderedUnit("Data_Gibibytes", GetLocalizedStringName("UnitName_Gibibytes"), GetLocalizedStringName("UnitAbbreviation_Gibibytes"), 14, <<>>),
       OrderedUnit("Data_Gigabit", GetLocalizedStringName("UnitName_Gigabit"), GetLocalizedStringName("UnitAbbreviation_Gigabit"), 11, <<>>),
       OrderedUnit("Data_Gigabyte", GetLocalizedStringName("UnitName_Gigabyte"), GetLocalizedStringName("UnitAbbreviation_Gigabyte"), 13, <<TRUE, FALSE, FALSE>>),
       OrderedUnit("Data_Kibibits", GetLocalizedStringName("UnitName_Kibibits"), GetLocalizedStringName("UnitAbbreviation_Kibibits"), 4, <<>>),
       OrderedUnit("Data_Kibibytes", GetLocalizedStringName("UnitName_Kibibytes"), GetLocalizedStringName("UnitAbbreviation_Kibibytes"), 6, <<>>),
       OrderedUnit("Data_Kilobit", GetLocalizedStringName("UnitName_Kilobit"), GetLocalizedStringName("UnitAbbreviation_Kilobit"), 3, <<>>),
       OrderedUnit("Data_Kilobyte", GetLocalizedStringName("UnitName_Kilobyte"), GetLocalizedStringName("UnitAbbreviation_Kilobyte"), 5, <<>>),
       OrderedUnit("Data_Mebibits", GetLocalizedStringName("UnitName_Mebibits"), GetLocalizedStringName("UnitAbbreviation_Mebibits"), 8, <<>>),
       OrderedUnit("Data_Mebibytes", GetLocalizedStringName("UnitName_Mebibytes"), GetLocalizedStringName("UnitAbbreviation_Mebibytes"), 10, <<>>),
       OrderedUnit("Data_Megabit", GetLocalizedStringName("UnitName_Megabit"), GetLocalizedStringName("UnitAbbreviation_Megabit"), 7, <<>>),
       OrderedUnit("Data_Megabyte", GetLocalizedStringName("UnitName_Megabyte"), GetLocalizedStringName("UnitAbbreviation_Megabyte"), 9, <<FALSE, TRUE, FALSE>>),
       OrderedUnit("Data_Pebibits", GetLocalizedStringName("UnitName_Pebibits"), GetLocalizedStringName("UnitAbbreviation_Pebibits"), 20, <<>>),
       OrderedUnit("Data_Pebibytes", GetLocalizedStringName("UnitName_Pebibytes"), GetLocalizedStringName("UnitAbbreviation_Pebibytes"), 22, <<>>),
       OrderedUnit("Data_Petabit", GetLocalizedStringName("UnitName_Petabit"), GetLocalizedStringName("UnitAbbreviation_Petabit"), 19, <<>>),
       OrderedUnit("Data_Petabyte", GetLocalizedStringName("UnitName_Petabyte"), GetLocalizedStringName("UnitAbbreviation_Petabyte"), 21, <<>>),
       OrderedUnit("Data_Tebibits", GetLocalizedStringName("UnitName_Tebibits"), GetLocalizedStringName("UnitAbbreviation_Tebibits"), 16, <<>>),
       OrderedUnit("Data_Tebibytes", GetLocalizedStringName("UnitName_Tebibytes"), GetLocalizedStringName("UnitAbbreviation_Tebibytes"), 18, <<>>),
       OrderedUnit("Data_Terabit", GetLocalizedStringName("UnitName_Terabit"), GetLocalizedStringName("UnitAbbreviation_Terabit"), 15, <<>>),
       OrderedUnit("Data_Terabyte", GetLocalizedStringName("UnitName_Terabyte"), GetLocalizedStringName("UnitAbbreviation_Terabyte"), 17, <<>>),
       OrderedUnit("Data_Yobibits", GetLocalizedStringName("UnitName_Yobibits"), GetLocalizedStringName("UnitAbbreviation_Yobibits"), 32, <<>>),
       OrderedUnit("Data_Yobibytes", GetLocalizedStringName("UnitName_Yobibytes"), GetLocalizedStringName("UnitAbbreviation_Yobibytes"), 34, <<>>),
       OrderedUnit("Data_Yottabit", GetLocalizedStringName("UnitName_Yottabit"), GetLocalizedStringName("UnitAbbreviation_Yottabit"), 31, <<>>),
       OrderedUnit("Data_Yottabyte", GetLocalizedStringName("UnitName_Yottabyte"), GetLocalizedStringName("UnitAbbreviation_Yottabyte"), 33, <<>>),
       OrderedUnit("Data_Zebibits", GetLocalizedStringName("UnitName_Zebibits"), GetLocalizedStringName("UnitAbbreviation_Zebibits"), 28, <<>>),
       OrderedUnit("Data_Zebibytes", GetLocalizedStringName("UnitName_Zebibytes"), GetLocalizedStringName("UnitAbbreviation_Zebibytes"), 30, <<>>),
       OrderedUnit("Data_Zetabits", GetLocalizedStringName("UnitName_Zetabits"), GetLocalizedStringName("UnitAbbreviation_Zetabits"), 27, <<>>),
       OrderedUnit("Data_Zetabytes", GetLocalizedStringName("UnitName_Zetabytes"), GetLocalizedStringName("UnitAbbreviation_Zetabytes"), 29, <<>>),
       OrderedUnit("Data_FloppyDisk", GetLocalizedStringName("UnitName_FloppyDisk"), GetLocalizedStringName("UnitAbbreviation_FloppyDisk"), 13, <<FALSE, FALSE, TRUE>>),
       OrderedUnit("Data_CD", GetLocalizedStringName("UnitName_CD"), GetLocalizedStringName("UnitAbbreviation_CD"), 14, <<FALSE, FALSE, TRUE>>),
       OrderedUnit("Data_DVD", GetLocalizedStringName("UnitName_DVD"), GetLocalizedStringName("UnitAbbreviation_DVD"), 15, <<FALSE, FALSE, TRUE>>) >>

energyUnits ==
    << OrderedUnit("Energy_BritishThermalUnit", GetLocalizedStringName("UnitName_BritishThermalUnit"), GetLocalizedStringName("UnitAbbreviation_BritishThermalUnit"), 7, <<>>),
       OrderedUnit("Energy_Calorie", GetLocalizedStringName("UnitName_Calorie"), GetLocalizedStringName("UnitAbbreviation_Calorie"), 4, <<>>),
       OrderedUnit("Energy_ElectronVolt", GetLocalizedStringName("UnitName_Electron-Volt"), GetLocalizedStringName("UnitAbbreviation_Electron-Volt"), 1, <<>>),
       OrderedUnit("Energy_FootPound", GetLocalizedStringName("UnitName_Foot-Pound"), GetLocalizedStringName("UnitAbbreviation_Foot-Pound"), 6, <<>>),
       OrderedUnit("Energy_Joule", GetLocalizedStringName("UnitName_Joule"), GetLocalizedStringName("UnitAbbreviation_Joule"), 2, <<TRUE, FALSE, FALSE>>),
       OrderedUnit("Energy_Kilocalorie", GetLocalizedStringName("UnitName_Kilocalorie"), GetLocalizedStringName("UnitAbbreviation_Kilocalorie"), 5, <<FALSE, TRUE, FALSE>>),
       OrderedUnit("Energy_Kilojoule", GetLocalizedStringName("UnitName_Kilojoule"), GetLocalizedStringName("UnitAbbreviation_Kilojoule"), 3, <<>>),
       OrderedUnit("Energy_Battery", GetLocalizedStringName("UnitName_Battery"), GetLocalizedStringName("UnitAbbreviation_Battery"), 8, <<FALSE, FALSE, TRUE>>),
       OrderedUnit("Energy_Banana", GetLocalizedStringName("UnitName_Banana"), GetLocalizedStringName("UnitAbbreviation_Banana"), 9, <<FALSE, FALSE, TRUE>>),
       OrderedUnit("Energy_SliceOfCake", GetLocalizedStringName("UnitName_SliceOfCake"), GetLocalizedStringName("UnitAbbreviation_SliceOfCake"), 10, <<FALSE, FALSE, TRUE>>) >>

lengthUnits ==
    << OrderedUnit("Length_Centimeter", GetLocalizedStringName("UnitName_Centimeter"), GetLocalizedStringName("UnitAbbreviation_Centimeter"), 4, <<useUSCustomary, useSI, FALSE>>),
       OrderedUnit("Length_Foot", GetLocalizedStringName("UnitName_Foot"), GetLocalizedStringName("UnitAbbreviation_Foot"), 8, <<>>),
       OrderedUnit("Length_Inch", GetLocalizedStringName("UnitName_Inch"), GetLocalizedStringName("UnitAbbreviation_Inch"), 7, <<useSI, useUSCustomary, FALSE>>),
       OrderedUnit("Length_Kilometer", GetLocalizedStringName("UnitName_Kilometer"), GetLocalizedStringName("UnitAbbreviation_Kilometer"), 6, <<>>),
       OrderedUnit("Length_Meter", GetLocalizedStringName("UnitName_Meter"), GetLocalizedStringName("UnitAbbreviation_Meter"), 5, <<>>),
       OrderedUnit("Length_Micron", GetLocalizedStringName("UnitName_Micron"), GetLocalizedStringName("UnitAbbreviation_Micron"), 2, <<>>),
       OrderedUnit("Length_Mile", GetLocalizedStringName("UnitName_Mile"), GetLocalizedStringName("UnitAbbreviation_Mile"), 10, <<>>),
       OrderedUnit("Length_Millimeter", GetLocalizedStringName("UnitName_Millimeter"), GetLocalizedStringName("UnitAbbreviation_Millimeter"), 3, <<>>),
       OrderedUnit("Length_Nanometer", GetLocalizedStringName("UnitName_Nanometer"), GetLocalizedStringName("UnitAbbreviation_Nanometer"), 1, <<>>),
       OrderedUnit("Length_NauticalMile", GetLocalizedStringName("UnitName_NauticalMile"), GetLocalizedStringName("UnitAbbreviation_NauticalMile"), 11, <<>>),
       OrderedUnit("Length_Yard", GetLocalizedStringName("UnitName_Yard"), GetLocalizedStringName("UnitAbbreviation_Yard"), 9, <<>>),
       OrderedUnit("Length_Paperclip", GetLocalizedStringName("UnitName_Paperclip"), GetLocalizedStringName("UnitAbbreviation_Paperclip"), 12, <<FALSE, FALSE, TRUE>>),
       OrderedUnit("Length_Hand", GetLocalizedStringName("UnitName_Hand"), GetLocalizedStringName("UnitAbbreviation_Hand"), 13, <<FALSE, FALSE, TRUE>>),
       OrderedUnit("Length_JumboJet", GetLocalizedStringName("UnitName_JumboJet"), GetLocalizedStringName("UnitAbbreviation_JumboJet"), 14, <<FALSE, FALSE, TRUE>>) >>

powerUnits ==
    << OrderedUnit("Power_BritishThermalUnitPerMinute", GetLocalizedStringName("UnitName_BTUPerMinute"), GetLocalizedStringName("UnitAbbreviation_BTUPerMinute"), 5, <<>>),
       OrderedUnit("Power_FootPoundPerMinute", GetLocalizedStringName("UnitName_Foot-PoundPerMinute"), GetLocalizedStringName("UnitAbbreviation_Foot-PoundPerMinute"), 4, <<>>),
       OrderedUnit("Power_Horsepower", GetLocalizedStringName("UnitName_Horsepower"), GetLocalizedStringName("UnitAbbreviation_Horsepower"), 3, <<FALSE, TRUE, FALSE>>),
       OrderedUnit("Power_Kilowatt", GetLocalizedStringName("UnitName_Kilowatt"), GetLocalizedStringName("UnitAbbreviation_Kilowatt"), 2, <<~useWattInsteadOfKilowatt>>),
       OrderedUnit("Power_Watt", GetLocalizedStringName("UnitName_Watt"), GetLocalizedStringName("UnitAbbreviation_Watt"), 1, <<useWattInsteadOfKilowatt>>),
       OrderedUnit("Power_LightBulb", GetLocalizedStringName("UnitName_LightBulb"), GetLocalizedStringName("UnitAbbreviation_LightBulb"), 6, <<FALSE, FALSE, TRUE>>),
       OrderedUnit("Power_Horse", GetLocalizedStringName("UnitName_Horse"), GetLocalizedStringName("UnitAbbreviation_Horse"), 7, <<FALSE, FALSE, TRUE>>),
       OrderedUnit("Power_TrainEngine", GetLocalizedStringName("UnitName_TrainEngine"), GetLocalizedStringName("UnitAbbreviation_TrainEngine"), 8, <<FALSE, FALSE, TRUE>>) >>

tempUnits ==
    << OrderedUnit("Temperature_DegreesCelsius", GetLocalizedStringName("UnitName_DegreesCelsius"), GetLocalizedStringName("UnitAbbreviation_DegreesCelsius"), 1, <<useFahrenheit, ~useFahrenheit, FALSE>>),
       OrderedUnit("Temperature_DegreesFahrenheit", GetLocalizedStringName("UnitName_DegreesFahrenheit"), GetLocalizedStringName("UnitAbbreviation_DegreesFahrenheit"), 2, <<~useFahrenheit, useFahrenheit, FALSE>>),
       OrderedUnit("Temperature_Kelvin", GetLocalizedStringName("UnitName_Kelvin"), GetLocalizedStringName("UnitAbbreviation_Kelvin"), 3, <<>>) >>

timeUnits ==
    << OrderedUnit("Time_Day", GetLocalizedStringName("UnitName_Day"), GetLocalizedStringName("UnitAbbreviation_Day"), 6, <<>>),
       OrderedUnit("Time_Hour", GetLocalizedStringName("UnitName_Hour"), GetLocalizedStringName("UnitAbbreviation_Hour"), 5, <<TRUE, FALSE, FALSE>>),
       OrderedUnit("Time_Microsecond", GetLocalizedStringName("UnitName_Microsecond"), GetLocalizedStringName("UnitAbbreviation_Microsecond"), 1, <<>>),
       OrderedUnit("Time_Millisecond", GetLocalizedStringName("UnitName_Millisecond"), GetLocalizedStringName("UnitAbbreviation_Millisecond"), 2, <<>>),
       OrderedUnit("Time_Minute", GetLocalizedStringName("UnitName_Minute"), GetLocalizedStringName("UnitAbbreviation_Minute"), 4, <<FALSE, TRUE, FALSE>>),
       OrderedUnit("Time_Second", GetLocalizedStringName("UnitName_Second"), GetLocalizedStringName("UnitAbbreviation_Second"), 3, <<>>),
       OrderedUnit("Time_Week", GetLocalizedStringName("UnitName_Week"), GetLocalizedStringName("UnitAbbreviation_Week"), 7, <<>>),
       OrderedUnit("Time_Year", GetLocalizedStringName("UnitName_Year"), GetLocalizedStringName("UnitAbbreviation_Year"), 8, <<>>) >>

speedUnits ==
    << OrderedUnit("Speed_CentimetersPerSecond", GetLocalizedStringName("UnitName_CentimetersPerSecond"), GetLocalizedStringName("UnitAbbreviation_CentimetersPerSecond"), 1, <<>>),
       OrderedUnit("Speed_FeetPerSecond", GetLocalizedStringName("UnitName_FeetPerSecond"), GetLocalizedStringName("UnitAbbreviation_FeetPerSecond"), 4, <<>>),
       OrderedUnit("Speed_KilometersPerHour", GetLocalizedStringName("UnitName_KilometersPerHour"), GetLocalizedStringName("UnitAbbreviation_KilometersPerHour"), 3, <<useUSCustomary, useSI, FALSE>>),
       OrderedUnit("Speed_Knot", GetLocalizedStringName("UnitName_Knot"), GetLocalizedStringName("UnitAbbreviation_Knot"), 6, <<>>),
       OrderedUnit("Speed_Mach", GetLocalizedStringName("UnitName_Mach"), GetLocalizedStringName("UnitAbbreviation_Mach"), 7, <<>>),
       OrderedUnit("Speed_MetersPerSecond", GetLocalizedStringName("UnitName_MetersPerSecond"), GetLocalizedStringName("UnitAbbreviation_MetersPerSecond"), 2, <<>>),
       OrderedUnit("Speed_MilesPerHour", GetLocalizedStringName("UnitName_MilesPerHour"), GetLocalizedStringName("UnitAbbreviation_MilesPerHour"), 5, <<useSI, useUSCustomary, FALSE>>),
       OrderedUnit("Speed_Turtle", GetLocalizedStringName("UnitName_Turtle"), GetLocalizedStringName("UnitAbbreviation_Turtle"), 8, <<FALSE, FALSE, TRUE>>),
       OrderedUnit("Speed_Horse", GetLocalizedStringName("UnitName_Horse"), GetLocalizedStringName("UnitAbbreviation_Horse"), 9, <<FALSE, FALSE, TRUE>>),
       OrderedUnit("Speed_Jet", GetLocalizedStringName("UnitName_Jet"), GetLocalizedStringName("UnitAbbreviation_Jet"), 10, <<FALSE, FALSE, TRUE>>) >>

volumeUnits ==
    << OrderedUnit("Volume_CubicCentimeter", GetLocalizedStringName("UnitName_CubicCentimeter"), GetLocalizedStringName("UnitAbbreviation_CubicCentimeter"), 2, <<>>),
       OrderedUnit("Volume_CubicFoot", GetLocalizedStringName("UnitName_CubicFoot"), GetLocalizedStringName("UnitAbbreviation_CubicFoot"), 13, <<>>),
       OrderedUnit("Volume_CubicInch", GetLocalizedStringName("UnitName_CubicInch"), GetLocalizedStringName("UnitAbbreviation_CubicInch"), 12, <<>>),
       OrderedUnit("Volume_CubicMeter", GetLocalizedStringName("UnitName_CubicMeter"), GetLocalizedStringName("UnitAbbreviation_CubicMeter"), 4, <<>>),
       OrderedUnit("Volume_CubicYard", GetLocalizedStringName("UnitName_CubicYard"), GetLocalizedStringName("UnitAbbreviation_CubicYard"), 14, <<>>),
       OrderedUnit("Volume_CupUS", GetLocalizedStringName("UnitName_CupUS"), GetLocalizedStringName("UnitAbbreviation_CupUS"), 8, <<>>),
       OrderedUnit("Volume_FluidOunceUK", GetLocalizedStringName("UnitName_FluidOunceUK"), GetLocalizedStringName("UnitAbbreviation_FluidOunceUK"), 17, <<>>),
       OrderedUnit("Volume_FluidOunceUS", GetLocalizedStringName("UnitName_FluidOunceUS"), GetLocalizedStringName("UnitAbbreviation_FluidOunceUS"), 7, <<>>),
       OrderedUnit("Volume_GallonUK", GetLocalizedStringName("UnitName_GallonUK"), GetLocalizedStringName("UnitAbbreviation_GallonUK"), 20, <<>>),
       OrderedUnit("Volume_GallonUS", GetLocalizedStringName("UnitName_GallonUS"), GetLocalizedStringName("UnitAbbreviation_GallonUS"), 11, <<>>),
       OrderedUnit("Volume_Liter", GetLocalizedStringName("UnitName_Liter"), GetLocalizedStringName("UnitAbbreviation_Liter"), 3, <<>>),
       OrderedUnit("Volume_Milliliter", GetLocalizedStringName("UnitName_Milliliter"), GetLocalizedStringName("UnitAbbreviation_Milliliter"), 1, <<useUSCustomary, useSI>>),
       OrderedUnit("Volume_PintUK", GetLocalizedStringName("UnitName_PintUK"), GetLocalizedStringName("UnitAbbreviation_PintUK"), 18, <<>>),
       OrderedUnit("Volume_PintUS", GetLocalizedStringName("UnitName_PintUS"), GetLocalizedStringName("UnitAbbreviation_PintUS"), 9, <<>>),
       OrderedUnit("Volume_TablespoonUS", GetLocalizedStringName("UnitName_TablespoonUS"), GetLocalizedStringName("UnitAbbreviation_TablespoonUS"), 6, <<>>),
       OrderedUnit("Volume_TeaspoonUS", GetLocalizedStringName("UnitName_TeaspoonUS"), GetLocalizedStringName("UnitAbbreviation_TeaspoonUS"), 5, <<useSI, useUSCustomary /\ m_currentRegionCode # "GB">>),
       OrderedUnit("Volume_QuartUK", GetLocalizedStringName("UnitName_QuartUK"), GetLocalizedStringName("UnitAbbreviation_QuartUK"), 19, <<>>),
       OrderedUnit("Volume_QuartUS", GetLocalizedStringName("UnitName_QuartUS"), GetLocalizedStringName("UnitAbbreviation_QuartUS"), 10, <<>>),
       OrderedUnit("Volume_TeaspoonUK", GetLocalizedStringName("UnitName_TeaspoonUK"), GetLocalizedStringName("UnitAbbreviation_TeaspoonUK"), 15, <<FALSE, useUSCustomary /\ m_currentRegionCode = "GB">>),
       OrderedUnit("Volume_TablespoonUK", GetLocalizedStringName("UnitName_TablespoonUK"), GetLocalizedStringName("UnitAbbreviation_TablespoonUK"), 16, <<>>),
       OrderedUnit("Volume_CoffeeCup", GetLocalizedStringName("UnitName_CoffeeCup"), GetLocalizedStringName("UnitAbbreviation_CoffeeCup"), 22, <<FALSE, FALSE, TRUE>>),
       OrderedUnit("Volume_Bathtub", GetLocalizedStringName("UnitName_Bathtub"), GetLocalizedStringName("UnitAbbreviation_Bathtub"), 23, <<FALSE, FALSE, TRUE>>),
       OrderedUnit("Volume_SwimmingPool", GetLocalizedStringName("UnitName_SwimmingPool"), GetLocalizedStringName("UnitAbbreviation_SwimmingPool"), 24, <<FALSE, FALSE, TRUE>>) >>

weightUnits ==
    << OrderedUnit("Weight_Carat", GetLocalizedStringName("UnitName_Carat"), GetLocalizedStringName("UnitAbbreviation_Carat"), 1, <<>>),
       OrderedUnit("Weight_Centigram", GetLocalizedStringName("UnitName_Centigram"), GetLocalizedStringName("UnitAbbreviation_Centigram"), 3, <<>>),
       OrderedUnit("Weight_Decigram", GetLocalizedStringName("UnitName_Decigram"), GetLocalizedStringName("UnitAbbreviation_Decigram"), 4, <<>>),
       OrderedUnit("Weight_Decagram", GetLocalizedStringName("UnitName_Decagram"), GetLocalizedStringName("UnitAbbreviation_Decagram"), 6, <<>>),
       OrderedUnit("Weight_Gram", GetLocalizedStringName("UnitName_Gram"), GetLocalizedStringName("UnitAbbreviation_Gram"), 5, <<>>),
       OrderedUnit("Weight_Hectogram", GetLocalizedStringName("UnitName_Hectogram"), GetLocalizedStringName("UnitAbbreviation_Hectogram"), 7, <<>>),
       OrderedUnit("Weight_Kilogram", GetLocalizedStringName("UnitName_Kilogram"), GetLocalizedStringName("UnitAbbreviation_Kilogram"), 8, <<useUSCustomary, useSI>>),
       OrderedUnit("Weight_LongTon", GetLocalizedStringName("UnitName_LongTon"), GetLocalizedStringName("UnitAbbreviation_LongTon"), 14, <<>>),
       OrderedUnit("Weight_Milligram", GetLocalizedStringName("UnitName_Milligram"), GetLocalizedStringName("UnitAbbreviation_Milligram"), 2, <<>>),
       OrderedUnit("Weight_Ounce", GetLocalizedStringName("UnitName_Ounce"), GetLocalizedStringName("UnitAbbreviation_Ounce"), 10, <<>>),
       OrderedUnit("Weight_Pound", GetLocalizedStringName("UnitName_Pound"), GetLocalizedStringName("UnitAbbreviation_Pound"), 11, <<useSI, useUSCustomary>>),
       OrderedUnit("Weight_ShortTon", GetLocalizedStringName("UnitName_ShortTon"), GetLocalizedStringName("UnitAbbreviation_ShortTon"), 13, <<>>),
       OrderedUnit("Weight_Stone", GetLocalizedStringName("UnitName_Stone"), GetLocalizedStringName("UnitAbbreviation_Stone"), 12, <<>>),
       OrderedUnit("Weight_Tonne", GetLocalizedStringName("UnitName_Tonne"), GetLocalizedStringName("UnitAbbreviation_Tonne"), 9, <<>>),
       OrderedUnit("Weight_Snowflake", GetLocalizedStringName("UnitName_Snowflake"), GetLocalizedStringName("UnitAbbreviation_Snowflake"), 15, <<FALSE, FALSE, TRUE>>),
       OrderedUnit("Weight_SoccerBall", GetLocalizedStringName("UnitName_SoccerBall"), GetLocalizedStringName("UnitAbbreviation_SoccerBall"), 16, <<FALSE, FALSE, TRUE>>),
       OrderedUnit("Weight_Elephant", GetLocalizedStringName("UnitName_Elephant"), GetLocalizedStringName("UnitAbbreviation_Elephant"), 17, <<FALSE, FALSE, TRUE>>),
       OrderedUnit("Weight_Whale", GetLocalizedStringName("UnitName_Whale"), GetLocalizedStringName("UnitAbbreviation_Whale"), 18, <<FALSE, FALSE, TRUE>>) >>

pressureUnits ==
    << OrderedUnit("Pressure_Atmosphere", GetLocalizedStringName("UnitName_Atmosphere"), GetLocalizedStringName("UnitAbbreviation_Atmosphere"), 1, <<TRUE, FALSE, FALSE>>),
       OrderedUnit("Pressure_Bar", GetLocalizedStringName("UnitName_Bar"), GetLocalizedStringName("UnitAbbreviation_Bar"), 2, <<FALSE, TRUE, FALSE>>),
       OrderedUnit("Pressure_KiloPascal", GetLocalizedStringName("UnitName_KiloPascal"), GetLocalizedStringName("UnitAbbreviation_KiloPascal"), 3, <<>>),
       OrderedUnit("Pressure_MillimeterOfMercury", GetLocalizedStringName("UnitName_MillimeterOfMercury "), GetLocalizedStringName("UnitAbbreviation_MillimeterOfMercury "), 4, <<>>),
       OrderedUnit("Pressure_Pascal", GetLocalizedStringName("UnitName_Pascal"), GetLocalizedStringName("UnitAbbreviation_Pascal"), 5, <<>>),
       OrderedUnit("Pressure_PSI", GetLocalizedStringName("UnitName_PSI"), GetLocalizedStringName("UnitAbbreviation_PSI"), 6, <<FALSE, FALSE, FALSE>>) >>

angleUnits ==
    << OrderedUnit("Angle_Degree", GetLocalizedStringName("UnitName_Degree"), GetLocalizedStringName("UnitAbbreviation_Degree"), 1, <<TRUE, FALSE, FALSE>>),
       OrderedUnit("Angle_Radian", GetLocalizedStringName("UnitName_Radian"), GetLocalizedStringName("UnitAbbreviation_Radian"), 2, <<FALSE, TRUE, FALSE>>),
       OrderedUnit("Angle_Gradian", GetLocalizedStringName("UnitName_Gradian"), GetLocalizedStringName("UnitAbbreviation_Gradian"), 3, <<>>) >>

GetUnits ==
    ("Area" :> areaUnits)
    @@ ("Data" :> dataUnits)
    @@ ("Energy" :> energyUnits)
    @@ ("Length" :> lengthUnits)
    @@ ("Power" :> powerUnits)
    @@ ("Temperature" :> tempUnits)
    @@ ("Time" :> timeUnits)
    @@ ("Speed" :> speedUnits)
    @@ ("Volume" :> volumeUnits)
    @@ ("Weight" :> weightUnits)
    @@ ("Pressure" :> pressureUnits)
    @@ ("Angle" :> angleUnits)

\* Only a failure to resolve a unit's name ends GetUnits: a failure to
\* resolve an abbreviation is swallowed.
LocalizationFails_NamesOnly(unitMap) ==
    \E c \in DOMAIN unitMap : \E k \in DOMAIN unitMap[c] :
        unitMap[c][k].name[1] = "unresolved"

\* A call of GetLocalizedStringName in GetUnits failed.  Neither GetUnits
\* nor LoadData has a handler, so the failure leaves both.
LocalizationFails(unitMap) ==
    \E c \in DOMAIN unitMap : \E k \in DOMAIN unitMap[c] :
        \/ unitMap[c][k].name[1] = "unresolved"
        \/ unitMap[c][k].abbreviation[1] = "unresolved"

----------------------------------------------------------------------------
(* std::sort *)

Range(s) == {s[k] : k \in DOMAIN s}

Orderings(S) ==
    {p \in [1..Cardinality(S) -> S] : \A a, b \in 1..Cardinality(S) : a # b => p[a] # p[b]}

\* std::sort with the comparator first.order < second.order puts the
\* elements in non-descending order and leaves the relative order of
\* elements of equal order unspecified.
RECURSIVE SortedFrom(_, _)
SortedFrom(rest, done) ==
    IF rest = {} THEN {done}
    ELSE LET least == CHOOSE u \in rest : \A v \in rest : ~(v.order < u.order)
             ties == {u \in rest : ~(least.order < u.order)}
         IN  UNION {SortedFrom(rest \ ties, done \o p) : p \in Orderings(ties)}

\* A vector left as it was declared: the call to sort left out.
sort_LeftOut(orderedUnits) == {orderedUnits}

sort(orderedUnits) == SortedFrom(Range(orderedUnits), << >>)

\* The vector after std::sort: its elements in the arrangement the sort
\* routine gives the vector's elements.
Arrange(orderedUnits, arrangement) ==
    [k \in DOMAIN orderedUnits |->
        orderedUnits[CHOOSE j \in DOMAIN orderedUnits : orderedUnits[j].id = arrangement[k].id]]

\* One sort routine serves every call of one build: a choice, for each
\* category's vector, of one of the outcomes std::sort may produce.
RECURSIVE SortRoutines(_, _)
SortRoutines(unitMap, categories) ==
    IF categories = {} THEN {[c \in {} |-> << >>]}
    ELSE LET c == CHOOSE x \in categories : TRUE
         IN  {(c :> s) @@ r : s \in sort(unitMap[c]), r \in SortRoutines(unitMap, categories \ {c})}

----------------------------------------------------------------------------
(* LoadData *)

NoEntries == [k \in {} |-> << >>]

\* The three tables of a loader on which no LoadData call has returned.
NoTables == [categories |-> << >>, units |-> NoEntries, ratios |-> NoEntries]

\* No query has been made.
NoReply == [call |-> "none", arg |-> "none", threw |-> FALSE, value |-> << >>]

\* map.insert(pair(key, value)): an existing key keeps its value.
Insert(map, key, value) == IF key \in DOMAIN map THEN map ELSE map @@ (key :> value)

\* map after insert(pair(list[k].id, values[k])) for k = 1 .. last in turn.
InsertEach(map, list, last, values) ==
    [id \in DOMAIN map \cup {list[k].id : k \in 1..last} |->
        IF id \in DOMAIN map
        THEN map[id]
        ELSE values[CHOOSE k \in 1..last :
                        /\ list[k].id = id
                        /\ \A j \in 1..(k - 1) : list[j].id # id]]

\* assert(conversionFactor > 0) fails
AssertFails(conversionFactor) == conversionFactor.nil \/ conversionFactor.sgn <= 0

\* unitFactor / conversionFactor has no defined value: an operand is a null
\* PRAT, or the divisor is zero.
Undefined(unitFactor, conversionFactor) ==
    unitFactor.nil \/ conversionFactor.nil \/ conversionFactor.sgn = 0

\* What a build without assertions may leave in parsedData.ratio when the
\* quotient is undefined.
Indeterminate == {nullptr, rat_zero, rat_one}

\* unitConversions after `PRAT unitFactor = unitConversions[unit.id]`:
\* operator[] adds a missing key with a null PRAT.
UnitConversions(factors, categoryViewMode, unitId) ==
    Insert(factors[categoryViewMode], unitId, nullptr)

\* The body of `for (UCM::Unit unit : unitList)` throws std::out_of_range:
\* categoryToUnitConversionDataMap.at or idToUnit.at finds no key.
Throws(factors, explicit, categoryViewMode, unitId, index) ==
    IF unitId \in DOMAIN explicit
    THEN \E id \in DOMAIN explicit[unitId] : id \notin DOMAIN index
    ELSE categoryViewMode \notin DOMAIN factors

\* The body meets a factor that fails the assertion or a quotient that is
\* undefined.
Faults(factors, explicit, categoryViewMode, unitId, index) ==
    /\ unitId \notin DOMAIN explicit
    /\ categoryViewMode \in DOMAIN factors
    /\ \E unitConversions \in {UnitConversions(factors, categoryViewMode, unitId)} :
       \E id \in DOMAIN unitConversions \cap DOMAIN index :
           \/ AssertFails(unitConversions[id])
           \/ Undefined(unitConversions[unitId], unitConversions[id])

\* Conversions without the test `idToUnit.find(id) == idToUnit.end()`: the
\* units the region omits keep their entries.
Conversions_WithoutSkip(factors, explicit, categoryViewMode, unitId, index, residue) ==
    IF unitId \in DOMAIN explicit
    THEN explicit[unitId]
    ELSE [id \in DOMAIN factors[categoryViewMode] \cup {unitId} |->
             [ratio |-> IF unitId \notin DOMAIN factors[categoryViewMode]
                           \/ Undefined(factors[categoryViewMode][unitId], factors[categoryViewMode][id])
                        THEN residue
                        ELSE RatDiv(factors[categoryViewMode][unitId], factors[categoryViewMode][id]),
              offset |-> rat_zero,
              offsetFirst |-> FALSE]]

\* The map `conversions` built for one unit, keyed by the id of the unit
\* idToUnit.at(id); residue is what an undefined quotient leaves.
Conversions(factors, explicit, categoryViewMode, unitId, index, residue) ==
    IF unitId \in DOMAIN explicit
    THEN explicit[unitId]
    ELSE [id \in (DOMAIN factors[categoryViewMode] \cup {unitId}) \cap DOMAIN index |->
             [ratio |-> IF unitId \notin DOMAIN factors[categoryViewMode]
                           \/ Undefined(factors[categoryViewMode][unitId], factors[categoryViewMode][id])
                        THEN residue
                        ELSE RatDiv(factors[categoryViewMode][unitId], factors[categoryViewMode][id]),
              offset |-> rat_zero,
              offsetFirst |-> FALSE]]

Min(S, default) == IF S = {} THEN default ELSE CHOOSE k \in S : \A j \in S : k <= j

\* One sequence of the elements of S, each once.
RECURSIVE Listed(_)
Listed(S) ==
    IF S = {} THEN << >>
    ELSE LET x == CHOOSE y \in S : TRUE IN << x >> \o Listed(S \ {x})

Reverse(s) == [k \in DOMAIN s |-> s[Len(s) + 1 - k]]

Rotate(s, n) == SubSeq(s, n + 1, Len(s)) \o SubSeq(s, 1, n)

\* The number of starting points tried for the enumeration of a hash map.
MaxRotation == 2

\* Orders in which the keys of an unordered_map may be enumerated: the
\* standard fixes none.  A sample: one listing and its reverse, each begun
\* at one of its first elements.
Enumerations(keys) ==
    {Rotate(s, n) : s \in {Listed(keys), Reverse(Listed(keys))},
                    n \in 0..Min({Cardinality(keys), MaxRotation}, 0)}

\* `for (const auto& [id, conversionFactor] : unitConversions)` with the
\* keys met in the order `enumeration`: what `conversions` holds after it.
RECURSIVE EnumerateFactors(_, _, _, _, _, _)
EnumerateFactors(enumeration, unitConversions, unitFactor, index, residue, conversions) ==
    IF enumeration = << >> THEN conversions
    ELSE LET id == Head(enumeration)
             conversionFactor == unitConversions[id]
             parsedData == [ratio |-> IF Undefined(unitFactor, conversionFactor)
                                      THEN residue
                                      ELSE RatDiv(unitFactor, conversionFactor),
                            offset |-> rat_zero,
                            offsetFirst |-> FALSE]
         IN  EnumerateFactors(Tail(enumeration), unitConversions, unitFactor, index, residue,
                              IF id \notin DOMAIN index
                              THEN conversions
                              ELSE Insert(conversions, index[id].id, parsedData))

\* `for (auto itr = unitConversions.begin(); ...)` over a row of the
\* explicit table, the keys met in the order `enumeration`.
RECURSIVE EnumerateExplicit(_, _, _, _)
EnumerateExplicit(enumeration, unitConversions, index, conversions) ==
    IF enumeration = << >> THEN conversions
    ELSE EnumerateExplicit(Tail(enumeration), unitConversions, index,
                           Insert(conversions, index[Head(enumeration)].id,
                                  unitConversions[Head(enumeration)]))

\* A constructor that fills the category list, as GetCategories does.
Init_WithCategories ==
    /\ m_currentRegionCode \in Regions
    /\ m_categoryList = GetCategories
    /\ m_categoryToUnits = NoEntries
    /\ m_ratioMap = NoEntries
    /\ pc = "idle"
    /\ categoryIndex = 0
    /\ idToUnit = NoEntries
    /\ orderedUnitMap = NoEntries
    /\ categoryToUnitConversionDataMap = NoEntries
    /\ explicitConversionData = NoEntries
    /\ lastLoad = "none"
    /\ loads = 0
    /\ unresolved = {}
    /\ reply = NoReply
    /\ built = NoTables
    /\ \E unitMap \in {GetUnits} : stdSort \in SortRoutines(unitMap, DOMAIN unitMap)

Init ==
    /\ m_currentRegionCode \in Regions
    /\ m_categoryList = << >>
    /\ m_categoryToUnits = NoEntries
    /\ m_ratioMap = NoEntries
    /\ pc = "idle"
    /\ categoryIndex = 0
    /\ idToUnit = NoEntries
    /\ orderedUnitMap = NoEntries
    /\ categoryToUnitConversionDataMap = NoEntries
    /\ explicitConversionData = NoEntries
    /\ lastLoad = "none"
    /\ loads = 0
    /\ unresolved = {}
    /\ reply = NoReply
    /\ built = NoTables
    /\ \E unitMap \in {GetUnits} : stdSort \in SortRoutines(unitMap, DOMAIN unitMap)

\* LoadData up to the loop: the four Get* calls and the two clear() calls.
\* LoadData with the two clear() calls made before the Get* steps: a
\* failure in GetUnits finds the maps already emptied.
LoadData_Begin_ClearsFirst ==
    /\ pc = "idle"
    /\ reply = NoReply
    /\ loads < MaxLoads
    /\ loads' = loads + 1
    /\ idToUnit' = NoEntries
    /\ m_categoryList' = GetCategories
    /\ m_categoryToUnits' = NoEntries
    /\ m_ratioMap' = NoEntries
    /\ \E unitMap \in {GetUnits} :
       IF LocalizationFails(unitMap)
       THEN /\ pc' = "idle"
            /\ lastLoad' = "failed"
            /\ UNCHANGED << categoryIndex, orderedUnitMap,
                            categoryToUnitConversionDataMap, explicitConversionData >>
       ELSE /\ orderedUnitMap' = unitMap
            /\ categoryToUnitConversionDataMap' = GetConversionData
            /\ explicitConversionData' = GetExplicitConversionData
            /\ categoryIndex' = 1
            /\ pc' = "loading"
            /\ UNCHANGED lastLoad
    /\ UNCHANGED << m_currentRegionCode, stdSort, unresolved, reply, built >>

LoadData_Begin ==
    /\ pc = "idle"
    /\ reply = NoReply
    /\ loads < MaxLoads
    /\ loads' = loads + 1
    /\ idToUnit' = NoEntries
    /\ m_categoryList' = GetCategories
    /\ \E unitMap \in {GetUnits} :
       IF LocalizationFails(unitMap)
       THEN \* the provider's failure leaves GetUnits and LoadData
            /\ pc' = "idle"
            /\ lastLoad' = "failed"
            /\ UNCHANGED << m_categoryToUnits, m_ratioMap, categoryIndex, orderedUnitMap,
                            categoryToUnitConversionDataMap, explicitConversionData >>
       ELSE /\ orderedUnitMap' = unitMap
            /\ categoryToUnitConversionDataMap' = GetConversionData
            /\ explicitConversionData' = GetExplicitConversionData
            /\ m_categoryToUnits' = NoEntries
            /\ m_ratioMap' = NoEntries
            /\ categoryIndex' = 1
            /\ pc' = "loading"
            /\ UNCHANGED lastLoad
    /\ UNCHANGED << m_currentRegionCode, stdSort, unresolved, reply, built >>

\* One iteration of `for (UCM::Category objectCategory : *m_categoryList)`.
LoadData_Category ==
    /\ pc = "loading"
    /\ reply = NoReply
    /\ categoryIndex <= Len(m_categoryList)
    /\ \E objectCategory \in {m_categoryList[categoryIndex]} :
       \E categoryViewMode \in {objectCategory.id} :
       IF categoryViewMode = Currency
       THEN /\ m_categoryToUnits' = Insert(m_categoryToUnits, objectCategory.id, << >>)
            /\ categoryIndex' = categoryIndex + 1
            /\ UNCHANGED << m_ratioMap, idToUnit, orderedUnitMap, pc, lastLoad >>
       ELSE \* orderedUnitMap[categoryViewMode] adds a missing key with an empty vector
            \E units \in {Insert(orderedUnitMap, categoryViewMode, << >>)} :
            \E orderedUnits \in {Arrange(units[categoryViewMode], stdSort[categoryViewMode])} :
            \E unitList \in {[k \in DOMAIN orderedUnits |-> Unit(orderedUnits[k])]} :
            \E n \in {Len(unitList)} :
            \E index \in {InsertEach(idToUnit, unitList, n, unitList)} :
            \E firstThrow \in {Min({k \in 1..n : Throws(categoryToUnitConversionDataMap, explicitConversionData,
                                                         categoryViewMode, unitList[k].id, index)}, n + 1)} :
            \E firstFault \in {Min({k \in 1..n : Faults(categoryToUnitConversionDataMap, explicitConversionData,
                                                         categoryViewMode, unitList[k].id, index)}, n + 1)} :
            \* the first fault ends the process (stop), or leaves a residue in every undefined quotient
            \E stop \in IF firstFault <= n /\ firstFault < firstThrow THEN BOOLEAN ELSE {FALSE} :
            \E residue \in IF firstFault <= n /\ ~stop THEN Indeterminate ELSE {nullptr} :
            \E end \in {IF stop THEN firstFault ELSE firstThrow} :
               /\ orderedUnitMap' = units
               /\ m_categoryToUnits' = Insert(m_categoryToUnits, objectCategory.id, unitList)
               /\ m_ratioMap' = InsertEach(m_ratioMap, unitList, end - 1,
                                           [k \in 1..(end - 1) |->
                                               Conversions(categoryToUnitConversionDataMap, explicitConversionData,
                                                           categoryViewMode, unitList[k].id, index, residue)])
               /\ IF end > n
                  THEN /\ categoryIndex' = categoryIndex + 1
                       /\ idToUnit' = index
                       /\ UNCHANGED << pc, lastLoad >>
                  ELSE IF stop
                  THEN \* the assertion, or the access through the null PRAT, ends the process
                       /\ pc' = "aborted"
                       /\ idToUnit' = index
                       /\ UNCHANGED << categoryIndex, lastLoad >>
                  ELSE \* std::out_of_range leaves LoadData
                       /\ pc' = "idle"
                       /\ lastLoad' = "threw"
                       /\ categoryIndex' = 0
                       /\ idToUnit' = NoEntries
    /\ UNCHANGED << m_currentRegionCode, m_categoryList, categoryToUnitConversionDataMap,
                    explicitConversionData, loads, stdSort, unresolved, reply, built >>

\* The loop is over: LoadData returns and its locals are gone.
LoadData_Return ==
    /\ pc = "loading"
    /\ reply = NoReply
    /\ categoryIndex > Len(m_categoryList)
    /\ pc' = "idle"
    /\ lastLoad' = "returned"
    /\ categoryIndex' = 0
    /\ idToUnit' = NoEntries
    /\ orderedUnitMap' = NoEntries
    /\ categoryToUnitConversionDataMap' = NoEntries
    /\ explicitConversionData' = NoEntries
    /\ built' = [categories |-> m_categoryList, units |-> m_categoryToUnits, ratios |-> m_ratioMap]
    /\ UNCHANGED << m_currentRegionCode, m_categoryList, m_categoryToUnits, m_ratioMap, loads, stdSort,
                    unresolved, reply >>

\* The localized-string provider comes to resolve other strings, between
\* two LoadData calls.
Provider_Change ==
    /\ pc = "idle"
    /\ reply = NoReply
    /\ loads < MaxLoads
    /\ unresolved' \in Unresolvable \ {unresolved}
    /\ UNCHANGED << m_currentRegionCode, m_categoryList, m_categoryToUnits, m_ratioMap, pc, categoryIndex,
                    idToUnit, orderedUnitMap, categoryToUnitConversionDataMap, explicitConversionData,
                    lastLoad, loads, stdSort, reply, built >>

----------------------------------------------------------------------------
(* Queries *)

\* return *m_categoryList;
LoadOrderedCategories == m_categoryList

\* return m_categoryToUnits->at(category); at throws when the key is absent.
LoadOrderedUnits(category) == m_categoryToUnits[category]

\* return m_ratioMap->at(unit); at throws when the key is absent.
LoadOrderedRatios(unit) == m_ratioMap[unit]

\* map[key]: an absent key gives a value-initialised element and no error.
at_OrDefault(map, key) ==
    [threw |-> FALSE, value |-> IF key \in DOMAIN map THEN map[key] ELSE << >>]

\* map.at(key): the element, or std::out_of_range when the key is absent.
at(map, key) ==
    IF key \in DOMAIN map
    THEN [threw |-> FALSE, value |-> map[key]]
    ELSE [threw |-> TRUE, value |-> << >>]

\* The find_if without the test currencyId != category.id.
Supports_CurrencyToo(supportedCategories, target) ==
    \E k \in DOMAIN supportedCategories : target.id = supportedCategories[k].id

\* itr != supportedCategories->end() for the find_if over supportedCategories
Supports(supportedCategories, target) ==
    \E k \in DOMAIN supportedCategories :
        Currency # supportedCategories[k].id /\ target.id = supportedCategories[k].id

\* The categories a caller asks LoadOrderedUnits for; "Standard" is the view
\* mode of a calculator, not of a converter.
QueriedCategories == {[id |-> Currency], [id |-> "Data"], [id |-> "Standard"]}

\* The units a caller asks LoadOrderedRatios for: a unit GetUnits declares
\* for two regions, and a unit of the currency loader.
QueriedUnits == {[id |-> "Area_Pyeong"], [id |-> "Currency_Unit"]}

\* A caller may make a query: the process has not ended (no assertion
\* failed, no fault occurred) and no query is being answered.  A query is
\* one step, at any point of a LoadData call; its result stays in reply
\* until Call_Return hands it over, and the steps of LoadData are taken
\* between queries.
Running == pc \notin {"aborted", "faulted"} /\ reply = NoReply

\* The variables no query changes.
loader == << m_currentRegionCode, m_categoryList, m_categoryToUnits, m_ratioMap, categoryIndex,
             idToUnit, orderedUnitMap, categoryToUnitConversionDataMap, explicitConversionData,
             lastLoad, loads, stdSort, unresolved, built >>

Call_LoadOrderedCategories ==
    /\ Running
    /\ reply' = [call |-> "LoadOrderedCategories", arg |-> "none",
                 threw |-> FALSE, value |-> LoadOrderedCategories]
    /\ UNCHANGED << loader, pc >>

Call_LoadOrderedUnits ==
    /\ Running
    /\ \E category \in QueriedCategories :
       \E found \in {at(m_categoryToUnits, category.id)} :
           reply' = [call |-> "LoadOrderedUnits", arg |-> category.id,
                     threw |-> found.threw, value |-> found.value]
    /\ UNCHANGED << loader, pc >>

Call_LoadOrderedRatios ==
    /\ Running
    /\ \E unit \in QueriedUnits :
       \E found \in {at(m_ratioMap, unit.id)} :
           reply' = [call |-> "LoadOrderedRatios", arg |-> unit.id,
                     threw |-> found.threw, value |-> found.value]
    /\ UNCHANGED << loader, pc >>

\* SupportsCategory.  With an empty category list it calls GetCategories
\* with supportedCategories, a null shared_ptr passed by value:
\* GetCategories clears and fills through the null pointer, and find_if then
\* reads through supportedCategories, still null.  That is undefined: the
\* process ends, or the call returns either answer.
Call_SupportsCategory ==
    /\ Running
    /\ \E target \in QueriedCategories :
       IF m_categoryList # << >>
       THEN /\ reply' = [call |-> "SupportsCategory", arg |-> target.id,
                         threw |-> FALSE, value |-> Supports(m_categoryList, target)]
            /\ UNCHANGED pc
       ELSE \E outcome \in {"fault", "true", "false"} :
                IF outcome = "fault"
                THEN pc' = "faulted" /\ UNCHANGED reply
                ELSE /\ reply' = [call |-> "SupportsCategory", arg |-> target.id,
                                  threw |-> FALSE, value |-> (outcome = "true")]
                     /\ UNCHANGED pc
    /\ UNCHANGED loader

\* The query returns: its caller has the result.
Call_Return ==
    /\ reply # NoReply
    /\ reply' = NoReply
    /\ UNCHANGED << loader, pc >>

\* The arrangement of a sorted vector that a stable sort gives: elements of
\* equal order stand as in the vector declared.
KeepsDeclarationOrder(declared, arrangement) ==
    \A j, k \in DOMAIN declared :
        (j < k /\ declared[j].order = declared[k].order) =>
            (CHOOSE i \in DOMAIN arrangement : arrangement[i].id = declared[j].id)
                < (CHOOSE i \in DOMAIN arrangement : arrangement[i].id = declared[k].id)

\* The loaders whose sort routine is one of the eight, the one that keeps
\* declaration order: neither a query nor the provider depends on how the
\* units of equal order are arranged.
InitOneSort ==
    /\ Init
    /\ \E unitMap \in {GetUnits} :
       \A c \in DOMAIN unitMap : KeepsDeclarationOrder(unitMap[c], stdSort[c])

\* LoadData and the queries, as a reader on another thread may make them
\* at any point of a LoadData call.
NextQueries ==
    \/ LoadData_Begin
    \/ LoadData_Category
    \/ LoadData_Return
    \/ Call_LoadOrderedCategories
    \/ Call_LoadOrderedUnits
    \/ Call_LoadOrderedRatios
    \/ Call_SupportsCategory
    \/ Call_Return

SpecQueries == InitOneSort /\ [][NextQueries]_vars

\* LoadData with a localized-string provider that may fail.
NextProvider == LoadData_Begin \/ LoadData_Category \/ LoadData_Return \/ Provider_Change

SpecProvider == InitOneSort /\ [][NextProvider]_vars

\* LoadData, under every sort routine.
Next == LoadData_Begin \/ LoadData_Category \/ LoadData_Return

Spec == Init /\ [][Next]_vars

----------------------------------------------------------------------------
(* Vocabulary of the properties *)

\* After LoadData: the last call returned and none is running.
Loaded == pc = "idle" /\ lastLoad = "returned"

\* The ids of the units of a built unit list.
Ids(unitList) == {unitList[k].id : k \in DOMAIN unitList}

\* The built categories other than Currency.
BuiltCategories == DOMAIN m_categoryToUnits \ {Currency}

\* The built categories none of whose units has an entry in the explicit table.
LinearCategories ==
    {c \in BuiltCategories : Ids(LoadOrderedUnits(c)) \cap DOMAIN GetExplicitConversionData = {}}

\* r is the rational a / b.
IsQuotient(r, a, b) ==
    /\ ~r.nil /\ ~a.nil /\ ~b.nil
    /\ b.sgn # 0
    /\ r = RatDiv(a, b)

\* C1.  After LoadData, in every category without explicit entries, the
\* table of each unit u of the built list maps each unit v of the list to
\* ratio = factor(u) / factor(v), offset = 0, offset-first = false, where
\* factor is the category's row of the linear factor table.
C1_LinearEntryIsFactorQuotient ==
    Loaded =>
        \A c \in LinearCategories :
            \A u, v \in Ids(LoadOrderedUnits(c)) :
                /\ c \in DOMAIN GetConversionData
                /\ {u, v} \subseteq DOMAIN GetConversionData[c]
                /\ u \in DOMAIN m_ratioMap
                /\ v \in DOMAIN LoadOrderedRatios(u)
                /\ IsQuotient(LoadOrderedRatios(u)[v].ratio,
                              GetConversionData[c][u], GetConversionData[c][v])
                /\ LoadOrderedRatios(u)[v].offset = rat_zero
                /\ LoadOrderedRatios(u)[v].offsetFirst = FALSE

\* C2.  After LoadData, for every category other than Currency and every
\* unit u of its built list, the keys of u's table are exactly the units of
\* that list, u among them.
C2_TableKeysAreTheBuiltUnits ==
    Loaded =>
        \A c \in BuiltCategories :
            \A u \in Ids(LoadOrderedUnits(c)) :
                /\ u \in DOMAIN m_ratioMap
                /\ DOMAIN LoadOrderedRatios(u) = Ids(LoadOrderedUnits(c))

\* A load returned for a region without Pyeong: Area is built, the factor
\* table lists Pyeong, and no table of an Area unit has it as a key.
C2_Witness ==
    /\ Loaded
    /\ "Area" \in BuiltCategories
    /\ "Area_Pyeong" \in DOMAIN GetConversionData["Area"]
    /\ "Area_Pyeong" \notin Ids(LoadOrderedUnits("Area"))
    /\ Cardinality(Ids(LoadOrderedUnits("Area"))) = 14
    /\ \A u \in Ids(LoadOrderedUnits("Area")) : Cardinality(DOMAIN LoadOrderedRatios(u)) = 14

\* C3.  After LoadData, for every unit u of every category other than
\* Currency, u's table maps u to ratio 1 and offset 0.
C3_SelfEntryIsIdentity ==
    Loaded =>
        \A c \in BuiltCategories :
            \A u \in Ids(LoadOrderedUnits(c)) :
                /\ u \in DOMAIN m_ratioMap
                /\ u \in DOMAIN LoadOrderedRatios(u)
                /\ LoadOrderedRatios(u)[u].ratio = rat_one
                /\ LoadOrderedRatios(u)[u].offset = rat_zero

\* C4.  After LoadData, for all units u, v of the built list of a category
\* without explicit entries, ratio(u -> v) * ratio(v -> u) is exactly 1.
C4_RatiosAreInverse ==
    Loaded =>
        \A c \in LinearCategories :
            \A u, v \in Ids(LoadOrderedUnits(c)) :
                /\ {u, v} \subseteq DOMAIN m_ratioMap
                /\ v \in DOMAIN LoadOrderedRatios(u)
                /\ u \in DOMAIN LoadOrderedRatios(v)
                /\ Times(LoadOrderedRatios(u)[v].ratio, LoadOrderedRatios(v)[u].ratio) = rat_one

TemperatureUnits ==
    {"Temperature_DegreesCelsius", "Temperature_DegreesFahrenheit", "Temperature_Kelvin"}

\* The entries conversionDataList gives for the pair (u, v).
ExplicitEntries(u, v) ==
    {conversionDataList[k] : k \in {j \in DOMAIN conversionDataList :
        /\ conversionDataList[j].parentUnitId = u
        /\ conversionDataList[j].unitId = v}}

\* C5.  conversionDataList has an entry for each of the 9 ordered pairs of
\* temperature units, and after LoadData the table of each temperature unit
\* has exactly the 3 temperature units as keys, each entry with the ratio,
\* offset and offset-first of the list's entry for that pair.
C5_TemperatureTableIsTheExplicitTable ==
    /\ \A u, v \in TemperatureUnits : ExplicitEntries(u, v) # {}
    /\ Loaded =>
           \A u \in TemperatureUnits :
               /\ u \in DOMAIN m_ratioMap
               /\ DOMAIN LoadOrderedRatios(u) = TemperatureUnits
               /\ \A v \in TemperatureUnits :
                      \A d \in ExplicitEntries(u, v) :
                          /\ LoadOrderedRatios(u)[v].ratio = d.ratio
                          /\ LoadOrderedRatios(u)[v].offset = d.offset
                          /\ LoadOrderedRatios(u)[v].offsetFirst = d.offsetFirst

\* A load returned and Temperature is built with its three units: the table
\* of Fahrenheit maps Kelvin to 5/9 with offset 459.67 applied first.
C5_Witness ==
    /\ Loaded
    /\ "Temperature" \in BuiltCategories
    /\ Ids(LoadOrderedUnits("Temperature")) = TemperatureUnits
    /\ LoadOrderedRatios("Temperature_DegreesFahrenheit")["Temperature_Kelvin"] =
           [ratio |-> Frac(INT(5), INT(9)),
            offset |-> Frac(INT(45967), INT(100)),
            offsetFirst |-> TRUE]

----------------------------------------------------------------------------
(* Applying an entry to a value *)

RECURSIVE GCD(_, _)
GCD(a, b) == IF b = 0 THEN a ELSE GCD(b, a % b)

\* The fraction n / d (d > 0) in lowest terms.
Fraction(n, d) ==
    LET g == GCD(Abs(n), d)
    IN  [n |-> n \div g, d |-> d \div g]

RECURSIVE Power(_, _)
Power(p, e) == IF e = 0 THEN 1 ELSE p * Power(p, e - 1)

\* The product of PrimeOf(key) ^ (s * f[key]) over the keys of f whose
\* exponent has the sign s.
RECURSIVE Product(_, _, _)
Product(f, keys, s) ==
    IF keys = {} THEN 1
    ELSE LET key == CHOOSE k \in keys : TRUE
         IN  (IF s * f[key] > 0 THEN Power(PrimeOf(key), s * f[key]) ELSE 1)
                 * Product(f, keys \ {key}, s)

\* The fraction a (defined) rational stands for.
ToFraction(r) ==
    [n |-> r.sgn * Product(r.f, DOMAIN r.f, 1),
     d |-> Product(r.f, DOMAIN r.f, -1)]

Plus(x, y) == Fraction(x.n * y.d + y.n * x.d, x.d * y.d)

Scaled(x, y) == Fraction(x.n * y.n, x.d * y.d)

\* The value an entry converts x to: (x + offset) * ratio when the entry
\* applies the offset first, x * ratio + offset otherwise.
Convert(x, entry) ==
    IF entry.offsetFirst
    THEN Scaled(Plus(x, ToFraction(entry.offset)), ToFraction(entry.ratio))
    ELSE Plus(Scaled(x, ToFraction(entry.ratio)), ToFraction(entry.offset))

\* Largest magnitude of the values converted.
MaxValue == 3

Values == {Fraction(n, 1) : n \in -MaxValue..MaxValue}

\* C6.  After LoadData, for all temperature units u, v and every value x,
\* converting x with the entry u -> v and the result with the entry v -> u
\* gives x back.
C6_TemperatureRoundTrip ==
    Loaded =>
        \A u, v \in TemperatureUnits :
            \A x \in Values :
                Convert(Convert(x, LoadOrderedRatios(u)[v]), LoadOrderedRatios(v)[u]) = x

\* A load returned whose Celsius -> Fahrenheit entry takes 0 to 32 and whose
\* Fahrenheit -> Celsius entry, which applies its offset first, takes 32 back to 0.
C6_Witness ==
    /\ Loaded
    /\ LoadOrderedRatios("Temperature_DegreesFahrenheit")["Temperature_DegreesCelsius"].offsetFirst
    /\ Convert(Fraction(0, 1),
               LoadOrderedRatios("Temperature_DegreesCelsius")["Temperature_DegreesFahrenheit"])
           = Fraction(32, 1)
    /\ Convert(Fraction(32, 1),
               LoadOrderedRatios("Temperature_DegreesFahrenheit")["Temperature_DegreesCelsius"])
           = Fraction(0, 1)

----------------------------------------------------------------------------
(* Regional defaults *)

\* A category's unit list has been built by the running or the last load.
Built(c) == c \in DOMAIN m_categoryToUnits

\* The units of a built list marked as conversion source (default "from").
DefaultFrom(c) ==
    {LoadOrderedUnits(c)[k].id : k \in {j \in DOMAIN LoadOrderedUnits(c) :
        LoadOrderedUnits(c)[j].isConversionSource}}

\* The units of a built list marked as conversion target (default "to").
DefaultTo(c) ==
    {LoadOrderedUnits(c)[k].id : k \in {j \in DOMAIN LoadOrderedUnits(c) :
        LoadOrderedUnits(c)[j].isConversionTarget}}

FahrenheitRegions == {"US", "FM", "MH", "PW", "BS", "KY", "LR"}

CustomaryRegions == {"US", "FM", "MH", "PW", "LR"}

\* C7 as stated.  Region "US" yields Fahrenheit as the default-from unit of
\* Temperature, and every region outside US, FM, MH, PW, BS, KY, LR yields
\* Celsius.
C7_FahrenheitIsDefaultFromInUS ==
    Built("Temperature") =>
        /\ m_currentRegionCode = "US" =>
               DefaultFrom("Temperature") = {"Temperature_DegreesFahrenheit"}
        /\ m_currentRegionCode \notin FahrenheitRegions =>
               DefaultFrom("Temperature") = {"Temperature_DegreesCelsius"}

\* C7 amended.  In region "US" and the other regions of US, FM, MH, PW, BS,
\* KY, LR the default-from unit of Temperature is Celsius and the default-to
\* unit is Fahrenheit; in every other region the default-from unit is
\* Fahrenheit and the default-to unit is Celsius.
C7_FahrenheitIsDefaultToInFahrenheitRegions ==
    Built("Temperature") =>
        IF m_currentRegionCode \in FahrenheitRegions
        THEN /\ DefaultFrom("Temperature") = {"Temperature_DegreesCelsius"}
             /\ DefaultTo("Temperature") = {"Temperature_DegreesFahrenheit"}
        ELSE /\ DefaultFrom("Temperature") = {"Temperature_DegreesFahrenheit"}
             /\ DefaultTo("Temperature") = {"Temperature_DegreesCelsius"}

\* Temperature is built for the Bahamas, a Fahrenheit region that is not
\* US-customary: Celsius is the source and Fahrenheit the target.
C7_Witness ==
    /\ m_currentRegionCode = "BS"
    /\ Loaded
    /\ Built("Temperature")
    /\ DefaultFrom("Temperature") = {"Temperature_DegreesCelsius"}
    /\ DefaultTo("Temperature") = {"Temperature_DegreesFahrenheit"}

\* C8 as stated.  The regions US, FM, MH, PW, LR yield Inch and
\* Miles-per-hour as the default-from units of Length and Speed, and every
\* other region yields Centimeter and Kilometers-per-hour.
C8_CustomaryIsDefaultFromInUS ==
    /\ Built("Length") =>
           DefaultFrom("Length") = IF m_currentRegionCode \in CustomaryRegions
                                   THEN {"Length_Inch"}
                                   ELSE {"Length_Centimeter"}
    /\ Built("Speed") =>
           DefaultFrom("Speed") = IF m_currentRegionCode \in CustomaryRegions
                                  THEN {"Speed_MilesPerHour"}
                                  ELSE {"Speed_KilometersPerHour"}

\* C8 amended.  In the regions US, FM, MH, PW, LR the default-from units of
\* Length and Speed are Centimeter and Kilometers-per-hour and the
\* default-to units are Inch and Miles-per-hour; in every other region the
\* default-from units are Inch and Miles-per-hour and the default-to units
\* are Centimeter and Kilometers-per-hour.
C8_CustomaryIsDefaultToInCustomaryRegions ==
    /\ Built("Length") =>
           IF m_currentRegionCode \in CustomaryRegions
           THEN /\ DefaultFrom("Length") = {"Length_Centimeter"}
                /\ DefaultTo("Length") = {"Length_Inch"}
           ELSE /\ DefaultFrom("Length") = {"Length_Inch"}
                /\ DefaultTo("Length") = {"Length_Centimeter"}
    /\ Built("Speed") =>
           IF m_currentRegionCode \in CustomaryRegions
           THEN /\ DefaultFrom("Speed") = {"Speed_KilometersPerHour"}
                /\ DefaultTo("Speed") = {"Speed_MilesPerHour"}
           ELSE /\ DefaultFrom("Speed") = {"Speed_MilesPerHour"}
                /\ DefaultTo("Speed") = {"Speed_KilometersPerHour"}

\* Length and Speed are built for Liberia, a US-customary region: the
\* metric units are the sources and the customary units the targets.
C8_Witness ==
    /\ m_currentRegionCode = "LR"
    /\ Loaded
    /\ Built("Length") /\ Built("Speed")
    /\ DefaultFrom("Length") = {"Length_Centimeter"}
    /\ DefaultTo("Length") = {"Length_Inch"}
    /\ DefaultFrom("Speed") = {"Speed_KilometersPerHour"}
    /\ DefaultTo("Speed") = {"Speed_MilesPerHour"}

\* C9.  Region "GB" marks Watt as default-from unit of Power and Kilowatt
\* as not default-from; every other region marks Kilowatt as default-from
\* and Watt as not default-from.
C9_WattIsDefaultFromOnlyInGB ==
    Built("Power") =>
        /\ {"Power_Watt", "Power_Kilowatt"} \subseteq Ids(LoadOrderedUnits("Power"))
        /\ IF m_currentRegionCode = "GB"
           THEN "Power_Watt" \in DefaultFrom("Power") /\ "Power_Kilowatt" \notin DefaultFrom("Power")
           ELSE "Power_Kilowatt" \in DefaultFrom("Power") /\ "Power_Watt" \notin DefaultFrom("Power")

\* Power is built for region "GB": Watt is the only default-from unit.
C9_Witness ==
    /\ m_currentRegionCode = "GB"
    /\ Loaded
    /\ Built("Power")
    /\ DefaultFrom("Power") = {"Power_Watt"}

\* C10.  Pyeong is in the built Area list exactly when the region is "KR" or
\* "KP", and for the regions "KR" and "DE" no LoadData call ends in an
\* error: none is cut short by a failed assertion or fault, none throws.
C10_PyeongOnlyInKoreaAndLoadCompletes ==
    /\ Built("Area") =>
           ("Area_Pyeong" \in Ids(LoadOrderedUnits("Area")) <=> m_currentRegionCode \in {"KR", "KP"})
    /\ m_currentRegionCode \in {"KR", "DE"} =>
           pc # "aborted" /\ lastLoad # "threw"

----------------------------------------------------------------------------
(* Display order *)

\* The display order GetUnits declares for the unit id in the vector declared.
DeclaredOrder(declared, id) ==
    declared[CHOOSE k \in DOMAIN declared : declared[k].id = id].order

\* Where the unit id stands in a built unit list.
Position(unitList, id) == CHOOSE k \in DOMAIN unitList : unitList[k].id = id

\* C11.  After LoadData, in the list LoadOrderedUnits returns for a category
\* other than Currency, no unit is followed by a unit of a smaller declared
\* display order.
C11_UnitsAreInDisplayOrder ==
    Loaded =>
        \E unitMap \in {GetUnits} :
        \A c \in BuiltCategories :
        \E unitList \in {LoadOrderedUnits(c)} :
        \A k \in 1..(Len(unitList) - 1) :
            DeclaredOrder(unitMap[c], unitList[k].id) <= DeclaredOrder(unitMap[c], unitList[k + 1].id)

\* C11 witness.  A load returned and sorting moved units: Area is declared
\* starting with Acre (order 9) and is listed starting with the unit of
\* order 1, and the Data list of 37 units is built.
C11_Witness ==
    /\ Loaded
    /\ Built("Area") /\ Built("Data")
    /\ LoadOrderedUnits("Area")[1].id = "Area_SquareMillimeter"
    /\ Len(LoadOrderedUnits("Data")) = 37

\* C12.  After LoadData, units of one category that are declared with the
\* same display order stand in the built list in the order of their
\* declaration: in Data, Gigabyte before FloppyDisk (13), Gibibytes before
\* CD (14), Terabit before DVD (15).
C12_EqualOrdersKeepDeclarationOrder ==
    Loaded =>
        \E unitMap \in {GetUnits} :
        \A c \in BuiltCategories :
        \E declared \in {unitMap[c]} :
        \E unitList \in {LoadOrderedUnits(c)} :
        \A j, k \in DOMAIN declared :
            (j < k /\ declared[j].order = declared[k].order) =>
                Position(unitList, declared[j].id) < Position(unitList, declared[k].id)

----------------------------------------------------------------------------
(* Currency *)

\* The ids of the categories of the built category list.
ListedIds == {m_categoryList[k].id : k \in DOMAIN m_categoryList}

\* The ids of the units of the built lists of the categories other than Currency.
BuiltUnitIds == UNION {Ids(LoadOrderedUnits(c)) : c \in BuiltCategories}

\* C13.  After every LoadData call that returned, the first or a later one,
\* Currency is in the list LoadOrderedCategories returns, LoadOrderedUnits
\* of Currency returns the empty sequence and throws nothing, and the keys
\* of the ratio map are the units of the other categories' lists: no entry
\* of it was made for Currency.
C13_CurrencyIsListedAndEmpty ==
    Loaded =>
        /\ Currency \in {LoadOrderedCategories[k].id : k \in DOMAIN LoadOrderedCategories}
        /\ at(m_categoryToUnits, Currency) = [threw |-> FALSE, value |-> << >>]
        /\ DOMAIN m_ratioMap = BuiltUnitIds
        /\ (reply.call = "LoadOrderedUnits" /\ reply.arg = Currency) =>
               (~reply.threw /\ reply.value = << >>)
        /\ reply.call = "LoadOrderedCategories" =>
               Currency \in {reply.value[k].id : k \in DOMAIN reply.value}

\* C13 witness.  The second LoadData call returned and LoadOrderedUnits of
\* Currency is answered with the empty sequence, while the ratio map has
\* entries.
C13_Witness ==
    /\ Loaded
    /\ loads >= 2
    /\ reply.call = "LoadOrderedUnits" /\ reply.arg = Currency
    /\ ~reply.threw /\ reply.value = << >>
    /\ m_ratioMap # NoEntries

\* C14.  After LoadData, SupportsCategory of a target is true exactly when
\* the target's id is the id of a category of the built list and is not
\* the Currency id: it is false for Currency, which is in the list.
C14_SupportsListedCategoriesButCurrency ==
    Loaded =>
        /\ \A target \in QueriedCategories \cup Range(m_categoryList) :
               Supports(m_categoryList, target) <=> target.id \in ListedIds \ {Currency}
        /\ Currency \in ListedIds /\ ~Supports(m_categoryList, [id |-> Currency])
        /\ reply.call = "SupportsCategory" =>
               (reply.value <=> reply.arg \in ListedIds \ {Currency})

\* C14 witness.  After a returned load SupportsCategory of Currency is
\* answered with false, Currency being in the list.
C14_Witness ==
    /\ Loaded
    /\ reply.call = "SupportsCategory" /\ reply.arg = Currency
    /\ reply.value = FALSE
    /\ Currency \in ListedIds

----------------------------------------------------------------------------
(* Repeated, absent and failed calls *)

Fresh == loads = 0

\* C16.  On a loader on which LoadData never ran, LoadOrderedCategories
\* returns the empty sequence, and LoadOrderedUnits of every category and
\* LoadOrderedRatios of every unit throw std::out_of_range.
C16_FreshLoaderHasNoTables ==
    Fresh =>
        /\ LoadOrderedCategories = << >>
        /\ \A c \in Range(CreateConverterCategory) \cup {q.id : q \in QueriedCategories} :
               at(m_categoryToUnits, c).threw
        /\ \E unitMap \in {GetUnits} :
           \A u \in UNION {Ids(unitMap[c]) : c \in DOMAIN unitMap} \cup {q.id : q \in QueriedUnits} :
               at(m_ratioMap, u).threw
        /\ reply.call = "LoadOrderedCategories" => reply.value = << >>
        /\ reply.call \in {"LoadOrderedUnits", "LoadOrderedRatios"} => reply.threw

\* C16 witness.  Before any LoadData call, LoadOrderedUnits of a converter
\* category is answered with std::out_of_range.
C16_Witness ==
    /\ Fresh
    /\ reply.call = "LoadOrderedUnits" /\ reply.arg = "Data"
    /\ reply.threw

\* C17.  After LoadData, LoadOrderedRatios of a unit that is in no built
\* list (a unit of the currency loader, or Pyeong outside "KR" and "KP")
\* throws std::out_of_range and returns no map, and a query that throws
\* leaves the category list, the unit map and the ratio map as they were.
C17_UnbuiltUnitIsALookupError ==
    /\ [](Loaded =>
            /\ \A unit \in QueriedUnits :
                   unit.id \notin BuiltUnitIds => at(m_ratioMap, unit.id).threw
            /\ (reply.call = "LoadOrderedRatios" /\ reply.arg \notin BuiltUnitIds) => reply.threw)
    /\ [][(reply = NoReply /\ reply' # NoReply /\ reply'.threw)
              => UNCHANGED << m_categoryList, m_categoryToUnits, m_ratioMap >>]_vars

\* C17 witness.  After a returned load for region "DE", LoadOrderedRatios of
\* Pyeong is answered with std::out_of_range and the tables are the ones
\* the load left.
C17_Witness ==
    /\ Loaded
    /\ m_currentRegionCode = "DE"
    /\ reply.call = "LoadOrderedRatios" /\ reply.arg = "Area_Pyeong"
    /\ reply.threw
    /\ built = [categories |-> m_categoryList, units |-> m_categoryToUnits, ratios |-> m_ratioMap]

----------------------------------------------------------------------------
(* Readers during a rebuild *)

\* The three tables as they are.
Tables == [categories |-> m_categoryList, units |-> m_categoryToUnits, ratios |-> m_ratioMap]

\* What a query gives when it reads the given tables.
Answer(tables, call, arg) ==
    CASE call = "LoadOrderedCategories" -> [threw |-> FALSE, value |-> tables.categories]
      [] call = "LoadOrderedUnits" -> at(tables.units, arg)
      [] call = "LoadOrderedRatios" -> at(tables.ratios, arg)
      [] call = "SupportsCategory" ->
             [threw |-> FALSE, value |-> Supports(tables.categories, [id |-> arg])]

\* The query being answered gives what it would give on the given tables.
AnsweredFrom(tables) ==
    [threw |-> reply.threw, value |-> reply.value] = Answer(tables, reply.call, reply.arg)

\* C18.  A query answered while LoadData runs again on a built loader gives
\* what the tables of the earlier build give, or, once the loop of the new
\* call has passed every category, what the complete new tables give: never
\* what tables cleared or filled in part give.
C18_ReaderSeesOldOrNewTables ==
    (built # NoTables /\ pc = "loading" /\ reply # NoReply) =>
        \/ AnsweredFrom(built)
        \/ categoryIndex > Len(m_categoryList) /\ AnsweredFrom(Tables)

----------------------------------------------------------------------------
(* Factors and localized strings *)

\* C19.  For every region, no LoadData call is ended by the assertion
\* conversionFactor > 0, and every unit of a built list of a category of
\* the linear model has, in its category's row of the factor table, a
\* factor that is initialised and greater than zero.
C19_FactorsAreDefinedAndPositive ==
    /\ pc # "aborted"
    /\ pc = "loading" =>
           \A c \in BuiltCategories :
           \A id \in Ids(LoadOrderedUnits(c)) :
               \/ id \in DOMAIN explicitConversionData
               \/ /\ c \in DOMAIN categoryToUnitConversionDataMap
                  /\ id \in DOMAIN categoryToUnitConversionDataMap[c]
                  /\ ~AssertFails(categoryToUnitConversionDataMap[c][id])

\* The string ids GetUnits asks the provider for.
RequestedStrings(unitMap) ==
    UNION {UNION {{unitMap[c][k].name[2], unitMap[c][k].abbreviation[2]} : k \in DOMAIN unitMap[c]} :
               c \in DOMAIN unitMap}

\* The provider cannot resolve a string GetUnits asks for in this region.
ProviderFails == \E unitMap \in {GetUnits} : RequestedStrings(unitMap) \cap unresolved # {}

\* C20.  A LoadData call during which the provider fails to resolve a unit's
\* name or abbreviation does not enter its loop and does not return: the
\* failure leaves LoadData, and the unit map and ratio map stay as they
\* were.  No unit of the unit map has a name or an abbreviation that is not
\* a string the provider resolved.
C20_LocalizationFailureLeavesLoadData ==
    /\ [](\A c \in DOMAIN m_categoryToUnits :
          \A k \in DOMAIN m_categoryToUnits[c] :
              /\ m_categoryToUnits[c][k].name[1] = "resource"
              /\ m_categoryToUnits[c][k].abbreviation[1] = "resource")
    /\ [][(loads' = loads + 1 /\ ProviderFails)
              => /\ pc' = "idle"
                 /\ lastLoad' = "failed"
                 /\ UNCHANGED << m_categoryToUnits, m_ratioMap >>]_vars

\* C20 witness.  On a built loader the provider fails to resolve the last
\* abbreviation asked for; the LoadData call made then failed, and the unit
\* map and ratio map are those of the earlier build.
C20_Witness ==
    /\ pc = "idle"
    /\ lastLoad = "failed"
    /\ unresolved = {"UnitAbbreviation_Gradian"}
    /\ built # NoTables
    /\ m_categoryToUnits = built.units /\ m_ratioMap = built.ratios

----------------------------------------------------------------------------
(* Explicit rows, enumeration order, failed calls, composition *)

\* C21.  During LoadData the table built for a unit that has an entry in
\* the explicit table is that unit's row of the explicit table and nothing
\* else; the factor table has no row for Temperature, every unit of the
\* built Temperature list has an explicit entry, and no call ends with the
\* std::out_of_range that looking up the factor row of Temperature would
\* throw.
C21_ExplicitUnitsBypassTheFactorTable ==
    /\ lastLoad # "threw"
    /\ pc = "loading" =>
           /\ "Temperature" \notin DOMAIN categoryToUnitConversionDataMap
           /\ \A u \in DOMAIN m_ratioMap \cap DOMAIN explicitConversionData :
                  m_ratioMap[u] = explicitConversionData[u]
           /\ Built("Temperature") =>
                  Ids(LoadOrderedUnits("Temperature")) \subseteq DOMAIN explicitConversionData

\* C21 witness.  A LoadData call has built Temperature: its three units have
\* their tables, taken from the explicit table.
C21_Witness ==
    /\ pc = "loading"
    /\ Built("Temperature")
    /\ TemperatureUnits \subseteq DOMAIN m_ratioMap
    /\ TemperatureUnits \subseteq DOMAIN explicitConversionData
    /\ m_ratioMap["Temperature_Kelvin"] = explicitConversionData["Temperature_Kelvin"]

\* The category the loop of LoadData has just built.
LastBuilt == m_categoryList[categoryIndex - 1].id

\* What an undefined quotient may leave in the table of unit u of category c.
Residues(c, u) ==
    IF \E id \in DOMAIN UnitConversions(categoryToUnitConversionDataMap, c, u) \cap DOMAIN idToUnit :
           Undefined(UnitConversions(categoryToUnitConversionDataMap, c, u)[u],
                     UnitConversions(categoryToUnitConversionDataMap, c, u)[id])
    THEN Indeterminate
    ELSE {nullptr}

\* The tables a run of the inner loops for unit u of category c may build,
\* whatever the order in which the two hash maps are enumerated.
Enumerated(c, u) ==
    IF u \in DOMAIN explicitConversionData
    THEN {EnumerateExplicit(e, explicitConversionData[u], idToUnit, NoEntries) :
              e \in Orderings(DOMAIN explicitConversionData[u])}
    ELSE UNION {{EnumerateFactors(e, unitConversions, unitConversions[u], idToUnit, residue, NoEntries) :
                     e \in Enumerations(DOMAIN unitConversions), residue \in Residues(c, u)} :
                unitConversions \in {UnitConversions(categoryToUnitConversionDataMap, c, u)}}

Defined(c, u, conversions) ==
    IF u \in DOMAIN explicitConversionData
       \/ UnitConversions(categoryToUnitConversionDataMap, c, u)[u].nil
    THEN IF u \in DOMAIN explicitConversionData THEN conversions ELSE NoEntries
    ELSE [id \in {k \in DOMAIN conversions :
                     ~UnitConversions(categoryToUnitConversionDataMap, c, u)[k].nil} |-> conversions[id]]

\* C22, the part that holds: but for the entries to and from a unit whose
\* factor is a null PRAT, and but for the keys they add, every enumeration
\* builds the table LoadData built.
C22_DefinedEntriesDoNotDependOnOrder ==
    (pc = "loading" /\ categoryIndex > 1 /\ LastBuilt # Currency) =>
        \A u \in Ids(m_categoryToUnits[LastBuilt]) \cap DOMAIN m_ratioMap :
            /\ \A conversions \in Enumerated(LastBuilt, u) :
                   /\ DOMAIN conversions = DOMAIN m_ratioMap[u]
                   /\ Defined(LastBuilt, u, conversions) = Defined(LastBuilt, u, m_ratioMap[u])

\* The unit of the built list of category c that has the given id.
BuiltUnit(c, id) ==
    LoadOrderedUnits(c)[CHOOSE k \in DOMAIN LoadOrderedUnits(c) : LoadOrderedUnits(c)[k].id = id]

\* C23.  In the built Volume list, Teaspoon (UK) carries the default-to flag
\* in region "GB" and in no other region, and there Teaspoon (US) does not
\* carry it: the flags of the two teaspoons in "GB" are those of no other
\* region.
C23_TeaspoonDefaultsAreSpecialInGB ==
    Built("Volume") =>
        /\ BuiltUnit("Volume", "Volume_TeaspoonUK").isConversionTarget <=> m_currentRegionCode = "GB"
        /\ ~BuiltUnit("Volume", "Volume_TeaspoonUK").isConversionSource
        /\ m_currentRegionCode = "GB" => ~BuiltUnit("Volume", "Volume_TeaspoonUS").isConversionTarget

\* C23, what the code does: Teaspoon (UK) carries no default flag in any
\* region, and the flags of Teaspoon (US) are decided by the customary
\* regions alone, "GB" being one of the others.
C23_TeaspoonDefaultsFollowCustomaryOnly ==
    Built("Volume") =>
        /\ ~BuiltUnit("Volume", "Volume_TeaspoonUK").isConversionTarget
        /\ ~BuiltUnit("Volume", "Volume_TeaspoonUK").isConversionSource
        /\ BuiltUnit("Volume", "Volume_TeaspoonUS").isConversionTarget
               <=> m_currentRegionCode \in CustomaryRegions
        /\ BuiltUnit("Volume", "Volume_TeaspoonUS").isConversionSource
               <=> m_currentRegionCode \notin CustomaryRegions

\* LoadOrderedUnits succeeds for every listed category, and LoadOrderedRatios
\* for every unit of the lists it returns.
ListedIsBuilt ==
    \A k \in DOMAIN LoadOrderedCategories :
        \E units \in {at(m_categoryToUnits, LoadOrderedCategories[k].id)} :
            /\ ~units.threw
            /\ \A j \in DOMAIN units.value : ~at(m_ratioMap, units.value[j].id).threw

\* C24.  Whenever no LoadData call is in progress, after calls that returned
\* and calls that failed part-way, every category of the category list has
\* its unit list and every unit of those lists has its conversion table.
C24_ListedCategoriesAndUnitsAreBuilt ==
    pc = "idle" => ListedIsBuilt

\* C24, the part that holds: the same, once a LoadData call has returned.
C24_ListedIsBuiltAfterAReturn ==
    (pc = "idle" /\ built # NoTables) => ListedIsBuilt

\* C25.  SupportsCategory on a loader on which LoadData has never run ends
\* without a fault, answers as it does on a loaded loader (from the list
\* GetCategories gives), and leaves the category list empty and the maps
\* as they were.
C25_FreshLoaderAnswersFromAFetchedList ==
    /\ pc # "faulted"
    /\ (Fresh /\ reply.call = "SupportsCategory") =>
           /\ ~reply.threw
           /\ reply.value = Supports(GetCategories, [id |-> reply.arg])
           /\ m_categoryList = << >>
           /\ m_categoryToUnits = NoEntries
           /\ m_ratioMap = NoEntries

\* C26.  After a LoadData call on a built loader has failed in GetUnits,
\* the unit map and the ratio map are the tables of the last call that
\* returned; and a step that empties a map that held entries is the step
\* of a call whose four Get* steps have returned, its loop about to begin.
C26_FailedRebuildKeepsThePreviousTables ==
    /\ []((pc = "idle" /\ lastLoad = "failed" /\ built # NoTables) =>
              /\ m_categoryToUnits = built.units
              /\ m_ratioMap = built.ratios
              /\ DOMAIN m_ratioMap # {})
    /\ [][(\/ (m_categoryToUnits # NoEntries /\ m_categoryToUnits' = NoEntries)
           \/ (m_ratioMap # NoEntries /\ m_ratioMap' = NoEntries))
              => /\ ~ProviderFails
                 /\ pc' = "loading"
                 /\ categoryIndex' = 1
                 /\ orderedUnitMap' # NoEntries
                 /\ categoryToUnitConversionDataMap' = GetConversionData
                 /\ explicitConversionData' = GetExplicitConversionData]_vars

\* C26 witness.  The second LoadData call of a built loader has failed on
\* the first name GetUnits asks for, and the maps hold the tables the first
\* call built.
C26_Witness ==
    /\ pc = "idle"
    /\ lastLoad = "failed"
    /\ loads = 2
    /\ unresolved = {"UnitName_Acre"}
    /\ built # NoTables
    /\ DOMAIN m_categoryToUnits = DOMAIN built.units
    /\ m_ratioMap = built.ratios

\* The whimsical units of a built list.
Whimsical(c) ==
    {LoadOrderedUnits(c)[k].id : k \in {j \in DOMAIN LoadOrderedUnits(c) :
        LoadOrderedUnits(c)[j].isWhimsical}}

\* The number of units of a built list flagged default-from, default-to.
Flagged(c) ==
    [from |-> Cardinality({k \in DOMAIN LoadOrderedUnits(c) : LoadOrderedUnits(c)[k].isConversionSource}),
     to |-> Cardinality({k \in DOMAIN LoadOrderedUnits(c) : LoadOrderedUnits(c)[k].isConversionTarget})]

\* C27.  For every region, each built category other than Currency has
\* exactly one unit flagged default-from and exactly one flagged default-to,
\* the two are different units, and neither is whimsical.
C27_OneDefaultFromAndOneDefaultTo ==
    \A c \in BuiltCategories :
        /\ Flagged(c) = [from |-> 1, to |-> 1]
        /\ DefaultFrom(c) \cap DefaultTo(c) = {}
        /\ (DefaultFrom(c) \cup DefaultTo(c)) \cap Whimsical(c) = {}

\* C27 witness.  LoadData has returned for Liberia with all twelve lists
\* built; Volume and Length have whimsical units, and their defaults are
\* one metric and one customary unit.
C27_Witness ==
    /\ Loaded
    /\ m_currentRegionCode = "LR"
    /\ Cardinality(BuiltCategories) = 12
    /\ Whimsical("Volume") # {} /\ Whimsical("Length") # {}
    /\ DefaultFrom("Volume") = {"Volume_Milliliter"}
    /\ DefaultTo("Volume") = {"Volume_TeaspoonUS"}

\* C28.  The conversion table of a unit of a built list has entries for
\* units of that list only, and a unit is in the list of one category only,
\* although idToUnit holds the units of every category built so far.
C28_TableHoldsUnitsOfOwnCategoryOnly ==
    \A c \in BuiltCategories :
        /\ \A u \in Ids(LoadOrderedUnits(c)) \cap DOMAIN m_ratioMap :
               DOMAIN m_ratioMap[u] \subseteq Ids(LoadOrderedUnits(c))
        /\ \A d \in BuiltCategories \ {c} :
               Ids(LoadOrderedUnits(c)) \cap Ids(LoadOrderedUnits(d)) = {}

\* C28 witness.  The loop has built the last category, Angle: idToUnit
\* holds the units of all twelve categories, and the table of Degree has
\* the units of Angle and no other.
C28_Witness ==
    /\ pc = "loading"
    /\ Built("Angle")
    /\ {"Area_Acre", "Data_Bit", "Angle_Degree"} \subseteq DOMAIN idToUnit
    /\ "Angle_Degree" \in DOMAIN m_ratioMap
    /\ DOMAIN m_ratioMap["Angle_Degree"] = Ids(LoadOrderedUnits("Angle"))
    /\ Cardinality(DOMAIN idToUnit) > Cardinality(DOMAIN m_ratioMap["Angle_Degree"])

\* ratio(u -> v) * ratio(v -> w) = ratio(u -> w) for the units u, v, w of
\* the set given, in the built tables.
RatiosCompose(units) ==
    \A u, v, w \in units :
        /\ {v, w} \subseteq DOMAIN LoadOrderedRatios(u)
        /\ w \in DOMAIN LoadOrderedRatios(v)
        /\ ~LoadOrderedRatios(u)[w].ratio.nil
        /\ Times(LoadOrderedRatios(u)[v].ratio, LoadOrderedRatios(v)[w].ratio)
               = LoadOrderedRatios(u)[w].ratio

\* Applying the entry u -> v and then the entry v -> w to x gives what the
\* entry u -> w gives, for all temperature units and the values tried.
TemperatureEntriesCompose ==
    \A u, v, w \in TemperatureUnits :
        \A x \in Values :
            Convert(Convert(x, LoadOrderedRatios(u)[v]), LoadOrderedRatios(v)[w])
                = Convert(x, LoadOrderedRatios(u)[w])

\* C29.  After LoadData, the ratios of every category without explicit
\* entries compose, ratio(u -> v) * ratio(v -> w) = ratio(u -> w) for all
\* its units, and so do the temperature entries applied to a value.
C29_ConversionsCompose ==
    Loaded =>
        /\ TemperatureEntriesCompose
        /\ \A c \in LinearCategories : RatiosCompose(Ids(LoadOrderedUnits(c)))

\* C29, the part that holds: the same, the units whose factor is a null
\* PRAT left out.
C29_DefinedConversionsCompose ==
    Loaded =>
        /\ TemperatureEntriesCompose
        /\ \E factors \in {GetConversionData} :
           \A c \in LinearCategories :
               RatiosCompose({u \in Ids(LoadOrderedUnits(c)) : ~factors[c][u].nil})

\* The ratio of the built entry u -> v.
Ratio(u, v) == LoadOrderedRatios(u)[v].ratio

\* C30.  Each shared decimal constant has the value its name spells, and
\* after LoadData the metric ratios made of them are exact: Gram ->
\* Milligram 1000, Decigram -> Centigram 10, Megabyte -> Byte 1000000,
\* Meter -> Micron 1000000.
C30_DecimalConstantsSpellTheirValues ==
    /\ rat_0_000001 = Frac(INT(1), INT(1000000))
    /\ rat_0_000002 = Frac(INT(2), INT(1000000))
    /\ rat_0_00001 = Frac(INT(1), INT(100000))
    /\ rat_0_0001 = Frac(INT(1), INT(10000))
    /\ rat_0_0002 = Frac(INT(2), INT(10000))
    /\ rat_0_001 = Frac(INT(1), INT(1000))
    /\ rat_0_01 = Frac(INT(1), INT(100))
    /\ rat_0_1 = Frac(INT(1), INT(10))
    /\ Loaded =>
           /\ Ratio("Weight_Gram", "Weight_Milligram") = INT(1000)
           /\ Ratio("Weight_Decigram", "Weight_Centigram") = INT(10)
           /\ Ratio("Data_Megabyte", "Data_Byte") = INT(1000000)
           /\ Ratio("Length_Meter", "Length_Micron") = INT(1000000)

\* C30, what the code does: the three smallest constants are ten times the
\* value their names spell, the other five are that value, and the four
\* ratios are 100, 1, 100000 and 100000.
C30_SmallestConstantsAreTenfold ==
    /\ rat_0_000001 = Frac(INT(1), INT(100000))
    /\ rat_0_000002 = Frac(INT(2), INT(100000))
    /\ rat_0_00001 = Frac(INT(1), INT(10000))
    /\ rat_0_0001 = Frac(INT(1), INT(10000))
    /\ rat_0_0002 = Frac(INT(2), INT(10000))
    /\ rat_0_001 = Frac(INT(1), INT(1000))
    /\ rat_0_01 = Frac(INT(1), INT(100))
    /\ rat_0_1 = Frac(INT(1), INT(10))
    /\ Loaded =>
           /\ Ratio("Weight_Gram", "Weight_Milligram") = INT(100)
           /\ Ratio("Weight_Decigram", "Weight_Centigram") = INT(1)
           /\ Ratio("Data_Megabyte", "Data_Byte") = INT(100000)
           /\ Ratio("Length_Meter", "Length_Micron") = INT(100000)

====
